---- MODULE Spec2Model ----
(***************************************************************************)
(* Verification model of wBus (Vision front end).                          *)
(*                                                                         *)
(*   Part I   CacheManager<T>  (core/cache/CacheManager.ts)                *)
(*            the Map-backed cache, its access-time table, the pending     *)
(*            request table and the promise chain built by getOrFetch.     *)
(*   Part II  useAnimatedPosition  (features/map/hooks/                    *)
(*            useAnimatedPosition.ts, shared/utils/geo.ts)                 *)
(*            the marker animation hook: its refs, its React state, its    *)
(*            two effects, the frame callback and the browser's table of   *)
(*            scheduled frame callbacks.                                   *)
(***************************************************************************)
EXTENDS Integers, Sequences, FiniteSets, TLC

\* ------------------------------------------------------------------------
\* Bounds of the model
\* ------------------------------------------------------------------------
\* largest maxSize a cache is constructed with
MaxCap == 2
\* largest value Date.now() reaches (the clock may also stand still)
MaxTime == 1
\* number of producer invocations (fetchFn() calls) in one behaviour
MaxFetch == 2
\* number of state-changing operations in one behaviour
MaxSteps == 4

Keys == {"a", "b", "c"}
\* a stored value may be null (polylineCache is CacheManager<GeoPolyline | null>)
NullV == "null"
Values == {NullV, "v1"}
Callers == {"c1", "c2"}
\* outcome of a rejected producer
Err == "error"
NoKeys == {}

VARIABLES
    cache,            \* this.cache            : key -> value
    accessTimes,      \* this.accessTimes      : sequence of [key, time], Map insertion order
    pendingRequests,  \* this.pendingRequests  : key -> promise id
    maxSize,          \* this.maxSize
    now,              \* Date.now()
    promises,         \* promise chains created by getOrFetch, in creation order
    callers,          \* the logical callers of getOrFetch and what each got back
    recency,          \* history: cached keys, least recently accessed first
    lastOp,           \* history: the keys the last operation evicted or cleared away
    steps,            \* history: number of operations that changed the state so far
    removed           \* history: keys delete, clear or clearExcept removed and no
                      \*          set or getOrFetch call has named since

cacheVars == <<cache, accessTimes, pendingRequests, maxSize, now, promises, callers,
               recency, lastOp, steps, removed>>

VARIABLES
    mounted,                 \* "no" before the first render, "yes", "gone" after unmount
    props,                   \* the arguments of the last committed render
    state,                   \* useState: [position, angle], what the marker shows
    animationRef,            \* animationRef.current (NoFrame models null)
    isFirstRender,           \* isFirstRender.current
    prevTargetRef,           \* prevTargetRef.current
    prevSnapIndexRef,        \* prevSnapIndexRef.current (NoHint models null)
    currentPosRef,           \* currentPosRef.current
    currentAngleRef,         \* currentAngleRef.current
    animationPathRef,        \* animationPathRef.current
    sinceStart,              \* performance.now() - animationStartTimeRef.current, in frames
    animationStartAngleRef,  \* animationStartAngleRef.current
    animationEndAngleRef,    \* animationEndAngleRef.current
    animationEndPosRef,      \* animationEndPosRef.current
    resetKeyRef,             \* resetKeyRef.current
    cleanup,                 \* whether the main effect's last run returned its cleanup
    scheduled,               \* the browser's scheduled frame callbacks: [id, stale]
    trace,                   \* history: what the last step did (run, reset), the kind of
                             \* the session it left (session) and the session that was
                             \* in flight when the last render began (old)
    updates                  \* history: number of renders after the first

animVars == <<mounted, props, state, animationRef, isFirstRender, prevTargetRef,
              prevSnapIndexRef, currentPosRef, currentAngleRef, animationPathRef,
              sinceStart, animationStartAngleRef, animationEndAngleRef,
              animationEndPosRef, resetKeyRef, cleanup, scheduled, trace, updates>>

VARIABLES
    geoPolyline,   \* the polyline argument of the calls below
    geoPoint,      \* the point argument of snapPointToPolyline
    geoOptions,    \* its options: [segmentHint, searchRadius, minSegmentIndex]
    geoStart,      \* <<result>> once snapPointToPolyline has been called, else <<>>
    geoEnd,        \* <<result>> of the snap of a later target, else <<>>
    geoPath        \* the path buildPolylinePath returned for the two snaps, else <<>>

geoVars == <<geoPolyline, geoPoint, geoOptions, geoStart, geoEnd, geoPath>>

VARIABLES
    dirSequences,  \* the route sequences the hook loaded, one per variant
    dirNodeId,     \* the nodeid argument of resolveDirection
    dirNodeOrd,    \* its nodeord argument
    dirRouteId,    \* its routeid argument
    dirLookup,     \* <<lookup>> once buildDirectionLookup has run, else <<>>
    dirResult      \* <<result>> once resolveDirection has been called, else <<>>

dirVars == <<dirSequences, dirNodeId, dirNodeOrd, dirRouteId, dirLookup, dirResult>>

VARIABLES
    busRouteName,     \* the routeName the hook was last rendered with
    busEffectPending, \* the effect of that render has not run yet
    busIsReady,       \* state isReady
    busRouteState,    \* state routeState: [sequences, routeIdOrder]
    busLoads,         \* the calls of loadData, in the order they began
    busAnswer,        \* <<[nodeord, direction]>> once getDirection was called
    busChanges        \* number of renders with another routeName

busVars == <<busRouteName, busEffectPending, busIsReady, busRouteState, busLoads,
             busAnswer, busChanges>>

vars == <<cacheVars, animVars, geoVars, dirVars, busVars>>

\* ------------------------------------------------------------------------
\* Map helpers
\* ------------------------------------------------------------------------
\* Map.prototype.delete on a key -> value table
MapDelete(m, k) == [x \in (DOMAIN m) \ {k} |-> m[x]]

\* Map.prototype.set on a key -> value table
MapSet(m, k, v) == [x \in (DOMAIN m) \cup {k} |-> IF x = k THEN v ELSE m[x]]

EmptyMap == [x \in NoKeys |-> NullV]

\* keys of the access-time table
AtKeys(at) == {at[i].key : i \in 1..Len(at)}

\* accessTimes.get(k)
AtTime(at, k) == LET i == CHOOSE j \in 1..Len(at) : at[j].key = k IN at[i].time

\* accessTimes.set(k, t): an existing key keeps its insertion position
AtSet(at, k, t) ==
    IF k \in AtKeys(at)
    THEN [i \in 1..Len(at) |-> IF at[i].key = k THEN [key |-> k, time |-> t] ELSE at[i]]
    ELSE Append(at, [key |-> k, time |-> t])

\* accessTimes.delete(k)
AtDelete(at, k) == SelectSeq(at, LAMBDA e : e.key # k)

\* a sequence of keys without k
SeqWithout(s, k) == SelectSeq(s, LAMBDA x : x # k)

\* history: k becomes the most recently accessed key
Touch(s, k) == Append(SeqWithout(s, k), k)

\* ------------------------------------------------------------------------
\* CacheManager methods as state transformers on [c, at, p]
\* ------------------------------------------------------------------------
\* evictLRU's reduce: the first entry, in insertion order, with the smallest time
OldestKey(at) ==
    LET i == CHOOSE j \in 1..Len(at) :
                 /\ \A m \in 1..Len(at) : at[j].time <= at[m].time
                 /\ \A m \in 1..(j - 1) : at[m].time > at[j].time
    IN at[i].key

\* a mutation of EvictLRU: the entry stays in this.cache
EvictLRUTimesOnly(st) ==
    LET k == OldestKey(st.at)
    IN [c |-> st.c, at |-> AtDelete(st.at, k), p |-> MapDelete(st.p, k)]

EvictLRU(st) ==
    LET k == OldestKey(st.at)
    IN [c |-> MapDelete(st.c, k), at |-> AtDelete(st.at, k), p |-> MapDelete(st.p, k)]

\* set(key, value) at time t
CacheSet(st, k, v, t) ==
    LET s1 == IF Cardinality(DOMAIN st.c) >= maxSize /\ k \notin DOMAIN st.c
              THEN EvictLRU(st) ELSE st
    IN [c |-> MapSet(s1.c, k, v), at |-> AtSet(s1.at, k, t), p |-> s1.p]

\* history kept alongside set(): the keys still cached, in access order
RecencyAfterSet(c2, k) == Touch(SelectSeq(recency, LAMBDA x : x \in DOMAIN c2), k)

Here == [c |-> cache, at |-> accessTimes, p |-> pendingRequests]

Op(name, ks) == [op |-> name, keys |-> ks]

Other == Op("other", NoKeys)

\* what set() leaves in the history: the key it evicted, if any
SetNote(c2) == IF Cardinality(DOMAIN cache) >= maxSize /\ ~(DOMAIN cache \subseteq DOMAIN c2)
               THEN Op("evict", (DOMAIN cache) \ (DOMAIN c2)) ELSE Other

\* the cache manager's state, its clock, its promise chains and their callers
progVars == <<cache, accessTimes, pendingRequests, maxSize, now, promises, callers>>

\* an operation may run while the behaviour is shorter than MaxSteps
Step == steps < MaxSteps

\* an operation that changed that state counts against the length
Count(changed) == steps' = IF changed THEN steps + 1 ELSE steps

\* ------------------------------------------------------------------------
\* Initial state: a freshly constructed cache
\* ------------------------------------------------------------------------
CacheInit ==
    /\ cache = EmptyMap
    /\ accessTimes = <<>>
    /\ pendingRequests = [x \in NoKeys |-> 0]
    /\ maxSize \in 1..MaxCap
    /\ now = 0
    /\ promises = <<>>
    /\ callers = [c \in Callers |-> [st |-> "idle", key |-> "a", p |-> 0, res |-> NullV]]
    /\ recency = <<>>
    /\ lastOp = Other
    /\ steps = 0
    /\ removed = {}

\* a cache on which getOrFetch has been called once, by caller c1: the key is not
\* cached, so the producer has been invoked and its promise registered
CachePending ==
    /\ cache = EmptyMap
    /\ accessTimes = <<>>
    /\ \E k \in Keys :
          /\ pendingRequests = [x \in {k} |-> 1]
          /\ promises = <<[key |-> k, state |-> "running", val |-> NullV]>>
          /\ callers = [c \in Callers |->
                          IF c = "c1" THEN [st |-> "waiting", key |-> k, p |-> 1, res |-> NullV]
                          ELSE [st |-> "idle", key |-> "a", p |-> 0, res |-> NullV]]
    /\ maxSize \in 1..MaxCap
    /\ now = 0
    /\ recency = <<>>
    /\ lastOp = Other
    /\ steps = 0
    /\ removed = {}

\* ------------------------------------------------------------------------
\* Operations
\* ------------------------------------------------------------------------
\* the clock advances between two operations
Tick ==
    /\ Step
    /\ now < MaxTime
    /\ now' = now + 1
    /\ UNCHANGED <<cache, accessTimes, pendingRequests, maxSize, promises, callers,
                   recency>>
    /\ lastOp' = Other
    /\ UNCHANGED <<animVars, geoVars, dirVars, busVars>>
    /\ UNCHANGED removed
    /\ Count(progVars' # progVars)

Set(k, v) ==
    LET s2 == CacheSet(Here, k, v, now)
    IN /\ Step
       /\ cache' = s2.c
       /\ accessTimes' = s2.at
       /\ pendingRequests' = s2.p
       /\ recency' = RecencyAfterSet(s2.c, k)
       /\ lastOp' = SetNote(s2.c)
       /\ UNCHANGED <<maxSize, now, promises, callers>>
       /\ UNCHANGED <<animVars, geoVars, dirVars, busVars>>
       /\ removed' = removed \ {k}
       /\ Count(progVars' # progVars)

\* get(key): a stored null reads as "not found" and does not refresh the time
GetHit(k) == k \in DOMAIN cache /\ cache[k] # NullV

Get(k) ==
    /\ Step
    /\ accessTimes' = IF GetHit(k) THEN AtSet(accessTimes, k, now) ELSE accessTimes
    /\ recency' = IF GetHit(k) THEN Touch(recency, k) ELSE recency
    /\ lastOp' = Other
    /\ UNCHANGED <<cache, pendingRequests, maxSize, now, promises, callers>>
    /\ UNCHANGED <<animVars, geoVars, dirVars, busVars>>
    /\ UNCHANGED removed
    /\ Count(progVars' # progVars)

Delete(k) ==
    /\ Step
    /\ cache' = MapDelete(cache, k)
    /\ accessTimes' = AtDelete(accessTimes, k)
    /\ pendingRequests' = MapDelete(pendingRequests, k)
    /\ recency' = SeqWithout(recency, k)
    /\ lastOp' = Other
    /\ UNCHANGED <<maxSize, now, promises, callers>>
    /\ UNCHANGED <<animVars, geoVars, dirVars, busVars>>
    /\ removed' = removed \cup ({k} \cap ((DOMAIN cache) \cup (DOMAIN pendingRequests)))
    /\ Count(progVars' # progVars)

Clear ==
    /\ Step
    /\ cache' = EmptyMap
    /\ accessTimes' = <<>>
    /\ pendingRequests' = [x \in NoKeys |-> 0]
    /\ recency' = <<>>
    /\ lastOp' = Other
    /\ UNCHANGED <<maxSize, now, promises, callers>>
    /\ UNCHANGED <<animVars, geoVars, dirVars, busVars>>
    /\ removed' = removed \cup ((DOMAIN cache) \cup (DOMAIN pendingRequests))
    /\ Count(progVars' # progVars)

\* clearExcept, first loop: cache entries (and their access times) outside keepSet go
KeepCached(c, keep) == [x \in (DOMAIN c) \cap keep |-> c[x]]

KeepTimes(at, c, keep) == SelectSeq(at, LAMBDA e : ~(e.key \in DOMAIN c /\ e.key \notin keep))

\* a mutation of KeepPending: the second loop is missing
KeepPendingAll(pr, keep) == pr

\* clearExcept, second loop: pending requests outside keepSet go
KeepPending(pr, keep) == [x \in (DOMAIN pr) \cap keep |-> pr[x]]

ClearExcept(keep) ==
    /\ Step
    /\ cache' = KeepCached(cache, keep)
    /\ accessTimes' = KeepTimes(accessTimes, cache, keep)
    /\ pendingRequests' = KeepPending(pendingRequests, keep)
    /\ recency' = SelectSeq(recency, LAMBDA x : x \in keep)
    /\ lastOp' = Op("clearExcept", ((DOMAIN cache) \cup (DOMAIN pendingRequests)) \ keep)
    /\ UNCHANGED <<maxSize, now, promises, callers>>
    /\ UNCHANGED <<animVars, geoVars, dirVars, busVars>>
    /\ removed' = removed \cup (((DOMAIN cache) \cup (DOMAIN pendingRequests)) \ keep)
    /\ Count(progVars' # progVars)

\* a mutation of HasCached: the cached branch is never taken
HasCachedNever(k) == FALSE

\* this.cache.has(key)
HasCached(k) == k \in DOMAIN cache

\* a mutation of HasPending: the pending branch is never taken
HasPendingNever(k) == FALSE

\* this.pendingRequests.has(key)
HasPending(k) == k \in DOMAIN pendingRequests

Waiting(k, p) == [st |-> "waiting", key |-> k, p |-> p, res |-> NullV]

Returned(k, p, r) == [st |-> "returned", key |-> k, p |-> p, res |-> r]

\* getOrFetch(key, fetchFn) up to its return; c is the awaiting caller
GetOrFetch(c, k) ==
    /\ Step
    /\ callers[c].st # "waiting"
    /\ lastOp' = Other
    /\ IF HasCached(k)
       THEN /\ accessTimes' = AtSet(accessTimes, k, now)
            /\ recency' = Touch(recency, k)
            /\ callers' = [callers EXCEPT ![c] = Returned(k, 0, cache[k])]
            /\ UNCHANGED <<cache, pendingRequests, maxSize, now, promises>>
       ELSE IF HasPending(k)
       THEN /\ callers' = [callers EXCEPT ![c] = Waiting(k, pendingRequests[k])]
            /\ UNCHANGED <<cache, accessTimes, pendingRequests, maxSize, now, promises,
                           recency>>
       ELSE /\ Len(promises) < MaxFetch
            /\ promises' = Append(promises, [key |-> k, state |-> "running", val |-> NullV])
            /\ pendingRequests' = MapSet(pendingRequests, k, Len(promises) + 1)
            /\ callers' = [callers EXCEPT ![c] = Waiting(k, Len(promises) + 1)]
            /\ UNCHANGED <<cache, accessTimes, maxSize, now, recency>>
    /\ UNCHANGED <<animVars, geoVars, dirVars, busVars>>
    /\ removed' = removed \ {k}
    /\ Count(progVars' # progVars)

\* the promise returned by fetchFn() fulfils with data v
ProducerResolve(p, v) ==
    /\ Step
    /\ promises[p].state = "running"
    /\ promises' = [promises EXCEPT ![p].state = "fulfilled", ![p].val = v]
    /\ UNCHANGED <<cache, accessTimes, pendingRequests, maxSize, now, callers, recency>>
    /\ lastOp' = Other
    /\ UNCHANGED <<animVars, geoVars, dirVars, busVars>>
    /\ UNCHANGED removed
    /\ Count(progVars' # progVars)

\* the promise returned by fetchFn() rejects
ProducerReject(p) ==
    /\ Step
    /\ promises[p].state = "running"
    /\ promises' = [promises EXCEPT ![p].state = "rejected", ![p].val = Err]
    /\ UNCHANGED <<cache, accessTimes, pendingRequests, maxSize, now, callers, recency>>
    /\ lastOp' = Other
    /\ UNCHANGED <<animVars, geoVars, dirVars, busVars>>
    /\ UNCHANGED removed
    /\ Count(progVars' # progVars)

\* .then((data) => { this.set(key, data); return data; })
ThenHandler(p) ==
    LET k == promises[p].key
        s2 == CacheSet(Here, k, promises[p].val, now)
    IN /\ Step
       /\ promises[p].state = "fulfilled"
       /\ promises' = [promises EXCEPT ![p].state = "stored"]
       /\ cache' = s2.c
       /\ accessTimes' = s2.at
       /\ pendingRequests' = s2.p
       /\ recency' = RecencyAfterSet(s2.c, k)
       /\ lastOp' = SetNote(s2.c)
       /\ UNCHANGED <<maxSize, now, callers>>
       /\ UNCHANGED <<animVars, geoVars, dirVars, busVars>>
       /\ UNCHANGED removed
       /\ Count(progVars' # progVars)

\* a mutation of FinallyPending: the entry is cleared in the success path only
FinallyPendingOnSuccess(p) ==
    IF promises[p].state = "stored" THEN MapDelete(pendingRequests, promises[p].key)
    ELSE pendingRequests

\* a mutation of FinallyPending: the entry is never cleared
FinallyPendingNever(p) == pendingRequests

\* .finally(() => { this.pendingRequests.delete(key); })
FinallyPending(p) == MapDelete(pendingRequests, promises[p].key)

\* the .finally callback, and the settling of the promise that getOrFetch handed
\* to its callers: each of them receives the producer's outcome
FinallyHandler(p) ==
    /\ Step
    /\ promises[p].state \in {"stored", "rejected"}
    /\ promises' = [promises EXCEPT ![p].state = "done"]
    /\ pendingRequests' = FinallyPending(p)
    /\ callers' = [c \in Callers |->
                     IF callers[c].st = "waiting" /\ callers[c].p = p
                     THEN Returned(callers[c].key, p, promises[p].val)
                     ELSE callers[c]]
    /\ lastOp' = Other
    /\ UNCHANGED <<cache, accessTimes, maxSize, now, recency>>
    /\ UNCHANGED <<animVars, geoVars, dirVars, busVars>>
    /\ UNCHANGED removed
    /\ Count(progVars' # progVars)

\* getStats()
GetStats ==
    [size |-> Cardinality(DOMAIN cache),
     maxSize |-> maxSize,
     pendingRequests |-> Cardinality(DOMAIN pendingRequests),
     utilizationPercent |-> (200 * Cardinality(DOMAIN cache) + maxSize) \div (2 * maxSize)]

CacheNext ==
    \/ Tick
    \/ \E k \in Keys, v \in Values : Set(k, v)
    \/ \E k \in Keys : Get(k)
    \/ \E k \in Keys : Delete(k)
    \/ Clear
    \/ \E keep \in SUBSET Keys : ClearExcept(keep)
    \/ \E c \in Callers, k \in Keys : GetOrFetch(c, k)
    \/ \E p \in 1..Len(promises), v \in Values : ProducerResolve(p, v)
    \/ \E p \in 1..Len(promises) : ProducerReject(p)
    \/ \E p \in 1..Len(promises) : ThenHandler(p)
    \/ \E p \in 1..Len(promises) : FinallyHandler(p)

\* ------------------------------------------------------------------------
\* Properties of CacheManager
\* ------------------------------------------------------------------------
PromiseIds == 1..Len(promises)

WaitingOn(p) == {c \in Callers : callers[c].st = "waiting" /\ callers[c].p = p}

Running(k) == {p \in PromiseIds : promises[p].key = k /\ promises[p].state = "running"}

C2_OneProducerPerKeyInFlight ==
    \A k \in Keys : Cardinality(Running(k)) <= 1

\* C3: the cache never holds more than maxSize entries, whatever is pending
C3_SizeWithinMaxSize ==
    /\ Cardinality(DOMAIN cache) <= maxSize
    /\ GetStats.size <= GetStats.maxSize

\* C3 witness: a set() on a full cache evicted an entry while a request was pending
C3_Witness ==
    /\ lastOp.op = "evict"
    /\ Cardinality(DOMAIN cache) = maxSize
    /\ maxSize = MaxCap
    /\ DOMAIN pendingRequests # NoKeys

\* C4: a set() of a new key on a full cache removes exactly the entry whose latest
\* access (set, get hit, getOrFetch hit) is the oldest and keeps every other entry
C4_EvictsLeastRecentlyAccessed ==
    [][\A k \in Keys, v \in Values :
          (Set(k, v) /\ k \notin DOMAIN cache /\ Cardinality(DOMAIN cache) >= maxSize)
              => DOMAIN cache' = ((DOMAIN cache) \ {Head(recency)}) \cup {k}
      ]_vars

\* C5: a failed producer stores nothing, every caller sharing its request observes
\* the failure, its pending entry is gone, and a getOrFetch for a key that is neither
\* cached nor pending invokes the producer again; a failure is never cached.
C5_FailureIsSharedAndNotCached ==
    [][/\ \A p \in PromiseIds :
            (promises[p].state = "rejected" /\ promises'[p].state # "rejected")
                => /\ promises'[p].state = "done"
                   /\ cache' = cache
                   /\ promises[p].key \notin DOMAIN pendingRequests'
                   /\ \A c \in WaitingOn(p) : callers'[c] = Returned(promises[p].key, p, Err)
       /\ \A p \in PromiseIds :
            (promises[p].state = "running" /\ promises'[p].state = "rejected")
                => cache' = cache
       /\ \A c \in Callers, k \in Keys :
            (k \notin DOMAIN cache /\ k \notin DOMAIN pendingRequests /\ GetOrFetch(c, k))
                => /\ Len(promises') = Len(promises) + 1
                   /\ promises'[Len(promises')] = [key |-> k, state |-> "running", val |-> NullV]
                   /\ callers'[c] = Waiting(k, Len(promises'))
       /\ \A k \in DOMAIN cache' : cache'[k] # Err
      ]_vars

\* C5 witness: a request failed, its caller saw the failure, the key is not cached
\* and the next getOrFetch for the key started a second producer
C5_Witness ==
    /\ Len(promises) = 2
    /\ promises[1].state = "done" /\ promises[1].val = Err
    /\ promises[2].key = promises[1].key
    /\ promises[1].key \notin DOMAIN cache
    /\ \E c \in Callers : callers[c] = Returned(promises[1].key, 1, Err)
    /\ \E c \in Callers : callers[c] = Waiting(promises[1].key, 2)

\* C6: a pending entry never outlives the request that registered it: it refers to
\* a request whose completion handler has not run, and once every started request
\* has completed the pending table is empty (getStats().pendingRequests = 0)
C6_PendingClearedOnCompletion ==
    /\ \A k \in DOMAIN pendingRequests :
          /\ pendingRequests[k] \in PromiseIds
          /\ promises[pendingRequests[k]].state # "done"
    /\ (\A p \in PromiseIds : promises[p].state = "done") => GetStats.pendingRequests = 0

\* C6 witness: the one started request has completed with a value, its caller has
\* it, and no pending entry is left
C6_Witness ==
    /\ Len(promises) = 1
    /\ promises[1].state = "done" /\ promises[1].val = "v1"
    /\ \E c \in Callers : callers[c] = Returned(promises[1].key, 1, "v1")
    /\ GetStats.pendingRequests = 0

\* C7: getOrFetch on a cached key returns the cached value, invokes no producer and
\* sets the key's access time to the current time; a successful fetch leaves its
\* value cached under its key.
C7_CachedKeyNeverFetches ==
    [][/\ \A c \in Callers, k \in Keys :
            (k \in DOMAIN cache /\ GetOrFetch(c, k))
                => /\ promises' = promises
                   /\ pendingRequests' = pendingRequests
                   /\ cache' = cache
                   /\ callers'[c] = Returned(k, 0, cache[k])
                   /\ AtTime(accessTimes', k) = now
       /\ \A p \in PromiseIds :
            (promises[p].state = "fulfilled" /\ promises'[p].state = "stored")
                => /\ promises[p].key \in DOMAIN cache'
                   /\ cache'[promises[p].key] = promises[p].val
      ]_vars

\* C7 witness: a fetch stored its value and a later getOrFetch of the key was
\* answered from the cache with no second producer
C7_Witness ==
    /\ Len(promises) = 1
    /\ promises[1].state = "stored"
    /\ \E c \in Callers : callers[c] = Returned(promises[1].key, 0, promises[1].val)
    /\ promises[1].key \in DOMAIN cache
    /\ AtTime(accessTimes, promises[1].key) = now

\* C8: clearExcept(keep) leaves only keys of keep, in the cache and among the
\* pending requests, and leaves every kept entry and pending request as it was
C8_ClearExceptKeepsExactlyKeep ==
    [][\A keep \in SUBSET Keys :
          (lastOp'.op = "clearExcept" /\ ClearExcept(keep))
              => /\ DOMAIN cache' = (DOMAIN cache) \cap keep
                 /\ AtKeys(accessTimes') = DOMAIN cache'
                 /\ DOMAIN pendingRequests' = (DOMAIN pendingRequests) \cap keep
                 /\ \A k \in DOMAIN cache' :
                       cache'[k] = cache[k] /\ AtTime(accessTimes', k) = AtTime(accessTimes, k)
                 /\ \A k \in DOMAIN pendingRequests' : pendingRequests'[k] = pendingRequests[k]
      ]_vars

\* C8 witness: a clearExcept removed something and kept an entry and a request
C8_Witness ==
    /\ lastOp.op = "clearExcept"
    /\ lastOp.keys # NoKeys
    /\ DOMAIN cache # NoKeys
    /\ DOMAIN pendingRequests # NoKeys

\* C36: once delete(k), clear() or clearExcept(keys without k) has removed key
\* k, k stays absent from the cache until a later set(k, ...) or
\* getOrFetch(k, ...) call; the completion of a producer that was in flight for
\* k when it was removed does not put k back.
C36_RemovedKeyStaysAbsent ==
    \A k \in removed : k \notin DOMAIN cache

\* the pending entry of key k belongs to another request than p
NewerPending(p) ==
    /\ promises[p].key \in DOMAIN pendingRequests
    /\ pendingRequests[promises[p].key] # p

\* C37: the completion handler of a getOrFetch request removes only the pending
\* entry this request registered: when key k was removed and requested again
\* while an older producer for k was in flight, the older producer's completion
\* leaves the newer request's pending entry in place, so that callers arriving
\* before the newer producer settles still share it.
C37_CompletionKeepsNewerPending ==
    [][\A p \in PromiseIds :
          (NewerPending(p) /\ FinallyHandler(p))
             => /\ promises[p].key \in DOMAIN pendingRequests'
                /\ pendingRequests'[promises[p].key] = pendingRequests[promises[p].key]]_vars

\* ========================================================================
\* Part II   useAnimatedPosition
\* ========================================================================
\* Coordinates are fixed-point: a position is <<lat, lng>> with integer
\* components counted in grid steps.  One step of latitude is GridMeters
\* metres; the longitude scale cos(latitude) of getApproxDistanceMeters is
\* LngScaleNum / LngScaleDen over the whole grid.  Angles are whole degrees.

\* number of frame instants an animation of `duration` milliseconds spans
FramesPerMove == 2
\* number of renders after the first in one behaviour
MaxUpdates == 2

GridMeters == 4
LngScaleNum == 4
LngScaleDen == 5

\* const BACKWARD_T_EPSILON = 1e-3, as 1 / BACKWARD_T_EPSILON_INV
BACKWARD_T_EPSILON_INV == 1000
BACKWARD_JITTER_METERS == 12

\* null for a segment hint, null for animationRef.current
NoHint == -1
NoFrame == 0

Min(a, b) == IF a < b THEN a ELSE b
Max(a, b) == IF a > b THEN a ELSE b

\* clamp(value, min, max)
Clamp(value, lo, hi) == Max(lo, Min(hi, value))

\* Math.sqrt on the grid: the integer part of the root
ISqrt(n) == CHOOSE r \in 0..n : r * r <= n /\ (r + 1) * (r + 1) > n

\* delta * num / den rounded towards zero (delta may be negative, num/den in [0,1])
Scale(delta, num, den) ==
    IF delta >= 0 THEN (delta * num) \div den ELSE -(((-delta) * num) \div den)

getEuclideanDistance(P, Q) ==
    ISqrt((P[1] - Q[1]) * (P[1] - Q[1]) + (P[2] - Q[2]) * (P[2] - Q[2]))

\* (getApproxDistanceMeters(p1, p2) * LngScaleDen) squared
ApproxDistanceMetersSq(p1, p2) ==
    LET dLat == p2[1] - p1[1]
        dLng == p2[2] - p1[2]
    IN  GridMeters * GridMeters
            * (LngScaleDen * LngScaleDen * dLat * dLat + LngScaleNum * LngScaleNum * dLng * dLng)

\* getApproxDistanceMeters(p1, p2) <= meters
ApproxDistanceAtMost(p1, p2, meters) ==
    ApproxDistanceMetersSq(p1, p2) <= meters * meters * LngScaleDen * LngScaleDen

\* calculateBearing(A, B) to the nearest of the eight compass points;
\* atan2(0, 0) = 0 for a degenerate segment
calculateBearing(A, B) ==
    LET dLat == B[1] - A[1]
        dLng == B[2] - A[2]
    IN  IF dLng = 0 THEN (IF dLat >= 0 THEN 0 ELSE 180)
        ELSE IF dLat = 0 THEN (IF dLng > 0 THEN 90 ELSE 270)
        ELSE IF dLng > 0 THEN (IF dLat > 0 THEN 45 ELSE 135)
        ELSE (IF dLat > 0 THEN 315 ELSE 225)

normalizeAngle(angle) == ((angle % 360) + 360) % 360

\* interpolateAngle(from, to, num / den)
interpolateAngle(from, to, num, den) ==
    LET normFrom == normalizeAngle(from)
        normTo == normalizeAngle(to)
        d0 == normTo - normFrom
        d1 == IF d0 > 180 THEN d0 - 360 ELSE d0
        diff == IF d1 < -180 THEN d1 + 360 ELSE d1
    IN  normalizeAngle(normFrom + Scale(diff, num, den))

\* mutant of ProjectOnSegment: t is not clamped to [0, 1]
ProjectUnclamped(point, polyline, i) ==
    LET A == polyline[i + 1]
        B == polyline[i + 2]
        AP_x == point[1] - A[1]
        AP_y == point[2] - A[2]
        AB_x == B[1] - A[1]
        AB_y == B[2] - A[2]
        ab2 == AB_x * AB_x + AB_y * AB_y
        tNum == IF ab2 > 0 THEN AP_x * AB_x + AP_y * AB_y ELSE 0
        tDen == IF ab2 > 0 THEN ab2 ELSE 1
        ex == AP_x * tDen - AB_x * tNum
        ey == AP_y * tDen - AB_y * tNum
    IN  [position |-> <<A[1] + Scale(AB_x, tNum, tDen), A[2] + Scale(AB_y, tNum, tDen)>>,
         angle |-> calculateBearing(A, B),
         segmentIndex |-> i,
         tNum |-> tNum,
         tDen |-> tDen,
         dNum |-> ex * ex + ey * ey,
         dDen |-> tDen * tDen,
         found |-> TRUE]

\* One pass of the loop body of snapPointToPolyline for segment i (0-based):
\* t = tNum / tDen, the projection, and the squared distance dNum / dDen.
ProjectOnSegment(point, polyline, i) ==
    LET A == polyline[i + 1]
        B == polyline[i + 2]
        AP_x == point[1] - A[1]
        AP_y == point[2] - A[2]
        AB_x == B[1] - A[1]
        AB_y == B[2] - A[2]
        ab2 == AB_x * AB_x + AB_y * AB_y
        tNum == IF ab2 > 0 THEN Clamp(AP_x * AB_x + AP_y * AB_y, 0, ab2) ELSE 0
        tDen == IF ab2 > 0 THEN ab2 ELSE 1
        ex == AP_x * tDen - AB_x * tNum
        ey == AP_y * tDen - AB_y * tNum
    IN  [position |-> <<A[1] + Scale(AB_x, tNum, tDen), A[2] + Scale(AB_y, tNum, tDen)>>,
         angle |-> calculateBearing(A, B),
         segmentIndex |-> i,
         tNum |-> tNum,
         tDen |-> tDen,
         dNum |-> ex * ex + ey * ey,
         dDen |-> tDen * tDen,
         found |-> TRUE]

\* mutant of CloserThan: a segment at the same distance replaces the best
CloserOrEqual(c, best) == ~best.found \/ c.dNum * best.dDen <= best.dNum * c.dDen

\* dSq < bestDistSq
CloserThan(c, best) == ~best.found \/ c.dNum * best.dDen < best.dNum * c.dDen

RECURSIVE SnapScanButLast(_, _, _, _, _)
\* mutant of SnapScan: the loop stops before the last segment of the window
SnapScanButLast(point, polyline, i, endIdx, best) ==
    IF i >= endIdx THEN best
    ELSE LET c == ProjectOnSegment(point, polyline, i)
         IN  SnapScanButLast(point, polyline, i + 1, endIdx,
                             IF CloserThan(c, best) THEN c ELSE best)

RECURSIVE SnapScan(_, _, _, _, _)
\* for (let i = startIdx; i <= endIdx; i++) { ... }
SnapScan(point, polyline, i, endIdx, best) ==
    IF i > endIdx THEN best
    ELSE LET c == ProjectOnSegment(point, polyline, i)
         IN  SnapScan(point, polyline, i + 1, endIdx,
                      IF CloserThan(c, best) THEN c ELSE best)

SnapResult(r) ==
    [position |-> r.position, angle |-> r.angle, segmentIndex |-> r.segmentIndex,
     tNum |-> r.tNum, tDen |-> r.tDen]

\* lines 104-114: the first and the last segment index the loop visits
SnapWindow(polyline, segmentHint, searchRadius, minSegmentIndex) ==
    LET lastSegment == Len(polyline) - 2
        hasHint == segmentHint # NoHint
        radius == Max(0, searchRadius)
        hasMinIdx == minSegmentIndex # NoHint
        clampedHint == IF hasHint THEN Clamp(segmentHint, 0, lastSegment) ELSE 0
        baseStartIdx == IF hasHint THEN Clamp(clampedHint - radius, 0, lastSegment) ELSE 0
    IN  [startIdx |-> IF hasMinIdx
                      THEN Max(baseStartIdx, Clamp(minSegmentIndex, 0, lastSegment))
                      ELSE baseStartIdx,
         endIdx |-> IF hasHint THEN Clamp(clampedHint + radius, 0, lastSegment)
                    ELSE lastSegment]

\* snapPointToPolyline(point, polyline, {segmentHint, searchRadius, minSegmentIndex})
snapPointToPolyline(point, polyline, segmentHint, searchRadius, minSegmentIndex) ==
    IF Len(polyline) < 2
    THEN [position |-> point, angle |-> 0, segmentIndex |-> 0, tNum |-> 0, tDen |-> 1]
    ELSE LET window == SnapWindow(polyline, segmentHint, searchRadius, minSegmentIndex)
             none == [position |-> polyline[1],
                      angle |-> calculateBearing(polyline[1], polyline[1]),
                      segmentIndex |-> 0, tNum |-> 0, tDen |-> 1,
                      dNum |-> 0, dDen |-> 1, found |-> FALSE]
         IN  SnapResult(SnapScan(point, polyline, window.startIdx, window.endIdx, none))

\* backward only when the target's segment comes before the start's
BackwardBySegment(startSegIdx, startTNum, startTDen, endSegIdx, endTNum, endTDen) ==
    endSegIdx < startSegIdx

\* isBackwardProgress(startSegIdx, startT, endSegIdx, endT)
isBackwardProgress(startSegIdx, startTNum, startTDen, endSegIdx, endTNum, endTDen) ==
    IF endSegIdx < startSegIdx THEN TRUE
    ELSE IF endSegIdx > startSegIdx THEN FALSE
    ELSE BACKWARD_T_EPSILON_INV * endTNum * startTDen
            < BACKWARD_T_EPSILON_INV * startTNum * endTDen - startTDen * endTDen

\* mutant of buildPolylinePath: the forward loop starts at startSegIdx
buildPathFromStartVertex(polyline, startPos, startSegIdx, endPos, endSegIdx) ==
    IF startSegIdx = endSegIdx THEN <<startPos, endPos>>
    ELSE IF endSegIdx > startSegIdx
         THEN <<startPos>>
                \o [j \in 1..(endSegIdx - startSegIdx + 1) |-> polyline[startSegIdx + j]]
                \o <<endPos>>
         ELSE <<startPos, endPos>>

\* mutant of buildPolylinePath: within one segment the path is the start alone
PathOfStartAlone(polyline, startPos, startSegIdx, endPos, endSegIdx) ==
    IF startSegIdx = endSegIdx THEN <<startPos>>
    ELSE IF endSegIdx > startSegIdx
         THEN <<startPos>>
                \o [j \in 1..(endSegIdx - startSegIdx) |-> polyline[startSegIdx + 1 + j]]
                \o <<endPos>>
         ELSE <<startPos, endPos>>

\* buildPolylinePath(polyline, startPos, startSegIdx, endPos, endSegIdx)
buildPolylinePath(polyline, startPos, startSegIdx, endPos, endSegIdx) ==
    IF startSegIdx = endSegIdx THEN <<startPos, endPos>>
    ELSE IF endSegIdx > startSegIdx
         THEN <<startPos>>
                \o [j \in 1..(endSegIdx - startSegIdx) |-> polyline[startSegIdx + 1 + j]]
                \o <<endPos>>
         ELSE <<startPos, endPos>>

RECURSIVE Cumulative(_, _)
\* distances[i] of interpolateAlongPath (i is 0-based)
Cumulative(path, i) ==
    IF i = 0 THEN 0
    ELSE Cumulative(path, i - 1) + getEuclideanDistance(path[i], path[i + 1])

\* interpolateAlongPath(path, num / den) with 0 <= num / den <= 1
interpolateAlongPath(path, num, den) ==
    IF Len(path) = 0 THEN [position |-> <<0, 0>>, angle |-> 0]
    ELSE IF Len(path) = 1 THEN [position |-> path[1], angle |-> 0]
    ELSE LET totalDistance == Cumulative(path, Len(path) - 1)
             hits == {i \in 1..(Len(path) - 1) : Cumulative(path, i) * den >= totalDistance * num}
             segIdx == (CHOOSE i \in hits : \A j \in hits : i <= j) - 1
             segStart == Cumulative(path, segIdx)
             segLen == Cumulative(path, segIdx + 1) - segStart
             tNum == IF segLen > 0 THEN totalDistance * num - segStart * den ELSE 0
             tDen == IF segLen > 0 THEN segLen * den ELSE 1
             p1 == path[segIdx + 1]
             p2 == path[segIdx + 2]
         IN  IF totalDistance = 0
             THEN [position |-> path[Len(path)], angle |-> 0]
             ELSE [position |-> <<p1[1] + Scale(p2[1] - p1[1], tNum, tDen),
                                  p1[2] + Scale(p2[2] - p1[2], tNum, tDen)>>,
                   angle |-> calculateBearing(p1, p2)]

\* easeOutCubic(elapsed / duration) as a fraction over duration cubed
easeOutCubicNum(elapsed, duration) ==
    duration * duration * duration
        - (duration - elapsed) * (duration - elapsed) * (duration - elapsed)

easeOutCubicDen(duration) == duration * duration * duration

\* ------------------------------------------------------------------------
\* The arguments a render passes to the hook
\* ------------------------------------------------------------------------
\* a route of two segments, and no route
Line == <<<<0, 0>>, <<0, 8>>, <<8, 8>>>>
NoLine == <<>>

\* samples <<targetPosition, targetAngle>>: one beside the first segment, one
\* on it, the same position with another heading, and one on the second segment
Samples == {<<<<1, 2>>, 10>>, <<<<0, 4>>, 10>>, <<<<0, 4>>, 20>>, <<<<5, 8>>, 20>>}

\* options polyline, snapToPolyline and snapIndexHint (a hint comes with a
\* route that is snapped to)
Routes == {[polyline |-> Line, snap |-> TRUE, hint |-> NoHint],
           [polyline |-> Line, snap |-> TRUE, hint |-> 1],
           [polyline |-> Line, snap |-> FALSE, hint |-> NoHint],
           [polyline |-> NoLine, snap |-> TRUE, hint |-> NoHint]}

\* options snapIndexRange (0 also models undefined) and resetKey
Ranges == {0, 1}
ResetKeys == {"r1", "r2"}
\* the resetKey of the first render
FirstKey == "r1"

\* option duration, in frames
duration == FramesPerMove

RenderArgs(sample, route, range, key) ==
    [target |-> sample[1], angle |-> sample[2], polyline |-> route.polyline,
     snap |-> route.snap, hint |-> route.hint, range |-> range, key |-> key]

\* ------------------------------------------------------------------------
\* The hook's state as one record, and the browser's frame table
\* ------------------------------------------------------------------------
Hook ==
    [state |-> state, animationRef |-> animationRef, isFirstRender |-> isFirstRender,
     prevTargetRef |-> prevTargetRef, prevSnapIndexRef |-> prevSnapIndexRef,
     currentPosRef |-> currentPosRef, currentAngleRef |-> currentAngleRef,
     animationPathRef |-> animationPathRef, sinceStart |-> sinceStart,
     animationStartAngleRef |-> animationStartAngleRef,
     animationEndAngleRef |-> animationEndAngleRef,
     animationEndPosRef |-> animationEndPosRef, resetKeyRef |-> resetKeyRef,
     cleanup |-> cleanup, scheduled |-> scheduled, trace |-> trace]

\* the hook's state after a step is the record h
Becomes(h) ==
    /\ state' = h.state
    /\ animationRef' = h.animationRef
    /\ isFirstRender' = h.isFirstRender
    /\ prevTargetRef' = h.prevTargetRef
    /\ prevSnapIndexRef' = h.prevSnapIndexRef
    /\ currentPosRef' = h.currentPosRef
    /\ currentAngleRef' = h.currentAngleRef
    /\ animationPathRef' = h.animationPathRef
    /\ sinceStart' = h.sinceStart
    /\ animationStartAngleRef' = h.animationStartAngleRef
    /\ animationEndAngleRef' = h.animationEndAngleRef
    /\ animationEndPosRef' = h.animationEndPosRef
    /\ resetKeyRef' = h.resetKeyRef
    /\ cleanup' = h.cleanup
    /\ scheduled' = h.scheduled
    /\ trace' = h.trace

\* mutant of cancelAnimationFrame: the callback stays scheduled
CancelLost(sched, id) == sched

\* cancelAnimationFrame(id)
cancelAnimationFrame(sched, id) == {e \in sched : e.id # id}

\* the handle requestAnimationFrame returns: one no scheduled callback has
\* (a handle is only ever compared with the handles of scheduled callbacks)
NewFrameId(h) ==
    LET used == {e.id : e \in h.scheduled}
    IN  CHOOSE i \in 1..(Cardinality(used) + 1) :
            i \notin used /\ \A j \in 1..(Cardinality(used) + 1) : j \notin used => i <= j

\* history: callbacks still scheduled when a new session begins belong to a
\* superseded session
Superseded(sched) == {[e EXCEPT !.stale = TRUE] : e \in sched}

\* a snap that always searches the whole polyline
SnapUnhinted(point, p, segmentHint) ==
    snapPointToPolyline(point, p.polyline, NoHint, p.range, NoHint)

\* snapPointToPolyline(point, polyline, {segmentHint, searchRadius: snapIndexRange})
SnapWith(point, p, segmentHint) ==
    snapPointToPolyline(point, p.polyline, segmentHint, p.range, NoHint)

\* mutant of Snapping: the length of the polyline is not looked at
SnappingWhenAsked(p) == p.snap

\* shouldSnap && hasPolyline
Snapping(p) == p.snap /\ Len(p.polyline) >= 2

\* x ?? y for segment indices
OrElse(x, y) == IF x # NoHint THEN x ELSE y

\* where a sample is shown when it is applied at once: its snap, or the
\* sample itself without a usable route
Shown(p) == IF Snapping(p) THEN SnapWith(p.target, p, p.hint).position ELSE p.target

\* ------------------------------------------------------------------------
\* The effects (lines 211-240 and 243-395)
\* ------------------------------------------------------------------------
\* the cleanup the main effect returns (lines 389-393)
RunCleanup(h) ==
    [h EXCEPT !.scheduled = IF h.animationRef # NoFrame
                            THEN cancelAnimationFrame(@, h.animationRef) ELSE @]

\* mutant of ResetEffect: the reset adopts the raw target, never its snap
ResetUnsnapped(h, p) ==
    IF h.resetKeyRef = p.key THEN h
    ELSE [h EXCEPT !.resetKeyRef = p.key,
                   !.scheduled = Superseded(IF h.animationRef # NoFrame
                                            THEN cancelAnimationFrame(@, h.animationRef)
                                            ELSE @),
                   !.animationRef = NoFrame,
                   !.currentPosRef = p.target,
                   !.currentAngleRef = p.angle,
                   !.prevSnapIndexRef = p.hint,
                   !.prevTargetRef = p.target,
                   !.state = [position |-> p.target, angle |-> p.angle],
                   !.trace = [@ EXCEPT !.reset = TRUE]]

\* the reset effect (lines 211-240)
ResetEffect(h, p) ==
    IF h.resetKeyRef = p.key THEN h
    ELSE LET snapped == SnapWith(p.target, p, p.hint)
             nextPos == IF Snapping(p) THEN snapped.position ELSE p.target
             nextAngle == IF Snapping(p) THEN snapped.angle ELSE p.angle
             nextSnapIndex == IF Snapping(p) THEN OrElse(p.hint, snapped.segmentIndex)
                              ELSE p.hint
         IN  [h EXCEPT !.resetKeyRef = p.key,
                       !.scheduled = Superseded(IF h.animationRef # NoFrame
                                                THEN cancelAnimationFrame(@, h.animationRef)
                                                ELSE @),
                       !.animationRef = NoFrame,
                       !.currentPosRef = nextPos,
                       !.currentAngleRef = nextAngle,
                       !.prevSnapIndexRef = nextSnapIndex,
                       !.prevTargetRef = p.target,
                       !.state = [position |-> nextPos, angle |-> nextAngle],
                       !.trace = [@ EXCEPT !.reset = TRUE]]

\* mutant of FirstRender: the first sample is adopted as it came
FirstRenderUnsnapped(h, p) ==
    [h EXCEPT !.isFirstRender = FALSE,
              !.currentPosRef = p.target,
              !.currentAngleRef = p.angle,
              !.prevSnapIndexRef = p.hint,
              !.state = [position |-> p.target, angle |-> p.angle],
              !.prevTargetRef = p.target,
              !.cleanup = FALSE,
              !.trace = [@ EXCEPT !.run = "first"]]

\* the main effect's first run (lines 247-267)
FirstRender(h, p) ==
    LET snapped == SnapWith(p.target, p, p.hint)
        initPos == IF Snapping(p) THEN snapped.position ELSE p.target
        initSnapIndex == IF Snapping(p) THEN OrElse(p.hint, snapped.segmentIndex)
                         ELSE p.hint
    IN  [h EXCEPT !.isFirstRender = FALSE,
                  !.currentPosRef = initPos,
                  !.currentAngleRef = p.angle,
                  !.prevSnapIndexRef = initSnapIndex,
                  !.state = [position |-> initPos, angle |-> p.angle],
                  !.prevTargetRef = p.target,
                  !.cleanup = FALSE,
                  !.trace = [@ EXCEPT !.run = "first"]]

\* mutant of InstallSession: the end position of the session is not replaced
InstallKeepingEnd(h, path, endPos, endAngle) ==
    [h EXCEPT !.animationPathRef = path,
              !.sinceStart = 0,
              !.animationStartAngleRef = h.currentAngleRef,
              !.animationEndAngleRef = endAngle]

\* lines 347-351: the new session's path, start time, angles and end position
InstallSession(h, path, endPos, endAngle) ==
    [h EXCEPT !.animationPathRef = path,
              !.sinceStart = 0,
              !.animationStartAngleRef = h.currentAngleRef,
              !.animationEndAngleRef = endAngle,
              !.animationEndPosRef = endPos]

\* lines 346-393: install the session, request the first frame, return the cleanup
StartAnimation(h, path, endPos, endAngle, kind) ==
    LET id == NewFrameId(h)
    IN  [InstallSession(h, path, endPos, endAngle)
            EXCEPT !.animationRef = id,
                   !.scheduled = Superseded(@) \cup {[id |-> id, stale |-> FALSE]},
                   !.cleanup = TRUE,
                   !.trace = [@ EXCEPT !.run = kind, !.session = kind]]

\* mutant of SamePosition: the new angle is not adopted
SamePositionKeepingAngle(h, p) ==
    [h EXCEPT !.prevSnapIndexRef = OrElse(p.hint, @),
              !.cleanup = FALSE,
              !.trace = [@ EXCEPT !.run = "same"]]

\* lines 273-280: the target has the coordinates of the previous target
SamePosition(h, p) ==
    [h EXCEPT !.currentAngleRef = p.angle,
              !.prevSnapIndexRef = OrElse(p.hint, @),
              !.state = [@ EXCEPT !.angle = p.angle],
              !.cleanup = FALSE,
              !.trace = [@ EXCEPT !.run = "same"]]

\* mutant of Teleport: the marker stays where it was
TeleportNowhere(h, p, endSnapped) ==
    [h EXCEPT !.prevSnapIndexRef = OrElse(p.hint, endSnapped.segmentIndex),
              !.trace = [@ EXCEPT !.run = "teleport"]]

\* a teleport that leaves the last known segment index as it was
TeleportKeepingIndex(h, p, endSnapped) ==
    [h EXCEPT !.currentPosRef = endSnapped.position,
              !.currentAngleRef = endSnapped.angle,
              !.state = [position |-> endSnapped.position, angle |-> endSnapped.angle],
              !.trace = [@ EXCEPT !.run = "teleport"]]

\* lines 321-326: "Large jump: teleport immediately"
Teleport(h, p, endSnapped) ==
    [h EXCEPT !.currentPosRef = endSnapped.position,
              !.currentAngleRef = endSnapped.angle,
              !.prevSnapIndexRef = OrElse(p.hint, endSnapped.segmentIndex),
              !.state = [position |-> endSnapped.position, angle |-> endSnapped.angle],
              !.trace = [@ EXCEPT !.run = "teleport"]]

\* the main effect (lines 243-395)
MainEffect(h, p) ==
    LET isSamePosition == p.target[1] = h.prevTargetRef[1] /\ p.target[2] = h.prevTargetRef[2]
        \* lines 282-286
        cancelled == [h EXCEPT !.scheduled = IF h.animationRef # NoFrame
                                             THEN cancelAnimationFrame(@, h.animationRef)
                                             ELSE @,
                               !.prevTargetRef = p.target,
                               !.cleanup = FALSE]
        startSnapped == SnapWith(h.currentPosRef, p, h.prevSnapIndexRef)
        endSnapped == SnapWith(p.target, p, p.hint)
        isBackward == isBackwardProgress(startSnapped.segmentIndex, startSnapped.tNum,
                                         startSnapped.tDen, endSnapped.segmentIndex,
                                         endSnapped.tNum, endSnapped.tDen)
        path == buildPolylinePath(p.polyline, startSnapped.position,
                                  startSnapped.segmentIndex, endSnapped.position,
                                  endSnapped.segmentIndex)
    IN  IF h.isFirstRender THEN FirstRender(h, p)
        ELSE IF isSamePosition
        THEN SamePosition(h, p)
        ELSE IF Snapping(p)
        THEN IF isBackward
             THEN IF ApproxDistanceAtMost(startSnapped.position, endSnapped.position,
                                          BACKWARD_JITTER_METERS)
                  THEN [cancelled EXCEPT !.trace = [@ EXCEPT !.run = "jitter"]]
                  ELSE Teleport(cancelled, p, endSnapped)
             ELSE StartAnimation(
                      [cancelled EXCEPT
                            !.prevSnapIndexRef = OrElse(p.hint, endSnapped.segmentIndex)],
                      path, endSnapped.position, endSnapped.angle, "forward")
        ELSE StartAnimation(cancelled, <<h.currentPosRef, p.target>>, p.target, p.angle,
                            "direct")

\* mutant of Settle: the last frame shows the interpolated position and angle
SettleOnPath(h, pathResult, angle) ==
    [h EXCEPT !.currentPosRef = pathResult.position,
              !.currentAngleRef = angle,
              !.state = [position |-> pathResult.position, angle |-> angle],
              !.animationRef = NoFrame,
              !.trace = [@ EXCEPT !.run = "settle"]]

\* lines 368-371 and 375-384 of tick: rawProgress is 1; the interpolated
\* position and angle are overwritten at once by the session's end
Settle(h, pathResult, angle) ==
    [h EXCEPT !.currentPosRef = h.animationEndPosRef,
              !.currentAngleRef = h.animationEndAngleRef,
              !.state = [position |-> h.animationEndPosRef,
                         angle |-> h.animationEndAngleRef],
              !.animationRef = NoFrame,
              !.trace = [@ EXCEPT !.run = "settle"]]

\* the frame callback tick(currentTime) (lines 353-385), run by the scheduled
\* callback e when sinceStart has become `elapsed`
TickBody(h, e, elapsed) ==
    LET rawNum == Min(elapsed, duration)
        pathResult == interpolateAlongPath(h.animationPathRef,
                                           easeOutCubicNum(rawNum, duration),
                                           easeOutCubicDen(duration))
        angle == IF Len(h.animationPathRef) > 1 THEN pathResult.angle
                 ELSE interpolateAngle(h.animationStartAngleRef, h.animationEndAngleRef,
                                       easeOutCubicNum(rawNum, duration),
                                       easeOutCubicDen(duration))
        fired == [h EXCEPT !.scheduled = @ \ {e}, !.sinceStart = rawNum]
        id == NewFrameId(fired)
    IN  IF rawNum < duration
        THEN [fired EXCEPT !.currentPosRef = pathResult.position,
                           !.currentAngleRef = angle,
                           !.state = [position |-> pathResult.position, angle |-> angle],
                           !.animationRef = id,
                           !.scheduled = @ \cup {[id |-> id, stale |-> e.stale]},
                           !.trace = [@ EXCEPT !.run = "tick"]]
        ELSE Settle(fired, pathResult, angle)

\* ------------------------------------------------------------------------
\* Actions of the hook
\* ------------------------------------------------------------------------
NoTrace == [run |-> "none", reset |-> FALSE, session |-> "none", old |-> <<>>]

\* the hook's variables before the first render and after the instance is gone
Unused ==
    [state |-> [position |-> <<0, 0>>, angle |-> 0],
     animationRef |-> NoFrame,
     isFirstRender |-> TRUE,
     prevTargetRef |-> <<0, 0>>,
     prevSnapIndexRef |-> NoHint,
     currentPosRef |-> <<0, 0>>,
     currentAngleRef |-> 0,
     animationPathRef |-> <<>>,
     sinceStart |-> 0,
     animationStartAngleRef |-> 0,
     animationEndAngleRef |-> 0,
     animationEndPosRef |-> <<0, 0>>,
     resetKeyRef |-> FirstKey,
     cleanup |-> FALSE,
     scheduled |-> {},
     trace |-> NoTrace]

AnimInit ==
    /\ mounted = "no"
    /\ props = RenderArgs(<<<<0, 0>>, 0>>,
                          [polyline |-> NoLine, snap |-> FALSE, hint |-> NoHint], 0, FirstKey)
    /\ state = Unused.state
    /\ animationRef = Unused.animationRef
    /\ isFirstRender = Unused.isFirstRender
    /\ prevTargetRef = Unused.prevTargetRef
    /\ prevSnapIndexRef = Unused.prevSnapIndexRef
    /\ currentPosRef = Unused.currentPosRef
    /\ currentAngleRef = Unused.currentAngleRef
    /\ animationPathRef = Unused.animationPathRef
    /\ sinceStart = Unused.sinceStart
    /\ animationStartAngleRef = Unused.animationStartAngleRef
    /\ animationEndAngleRef = Unused.animationEndAngleRef
    /\ animationEndPosRef = Unused.animationEndPosRef
    /\ resetKeyRef = Unused.resetKeyRef
    /\ cleanup = Unused.cleanup
    /\ scheduled = Unused.scheduled
    /\ trace = Unused.trace
    /\ updates = 0

\* useState and useRef initialisers of the first render (lines 182-208)
Constructed(p) ==
    [state |-> [position |-> Shown(p), angle |-> p.angle],
     animationRef |-> NoFrame,
     isFirstRender |-> TRUE,
     prevTargetRef |-> p.target,
     prevSnapIndexRef |-> p.hint,
     currentPosRef |-> p.target,
     currentAngleRef |-> p.angle,
     animationPathRef |-> <<>>,
     sinceStart |-> 0,
     animationStartAngleRef |-> p.angle,
     animationEndAngleRef |-> p.angle,
     animationEndPosRef |-> p.target,
     resetKeyRef |-> p.key,
     cleanup |-> FALSE,
     scheduled |-> {},
     trace |-> NoTrace]

\* the first render of the hook and its two effects
Mount(p) ==
    /\ mounted = "no"
    /\ mounted' = "yes"
    /\ props' = p
    /\ \E h \in {MainEffect(ResetEffect(Constructed(p), p), p)} : Becomes(h)
    /\ UNCHANGED <<updates, cacheVars, geoVars, dirVars, busVars>>

\* a later render with arguments p; fresh: the polyline is a new array
\* (it is whenever its points changed).  React runs the cleanup of the main
\* effect when its dependencies changed, then the reset effect, then the main
\* effect.
Committed(p, fresh) ==
    LET mainChanged == \/ p.target # props.target
                       \/ p.angle # props.angle
                       \/ p.polyline # props.polyline
                       \/ fresh
                       \/ p.snap # props.snap
                       \/ p.hint # props.hint
        begun == [Hook EXCEPT !.trace =
                     [run |-> "none", reset |-> FALSE, session |-> "none",
                      old |-> IF scheduled # {}
                              THEN <<[end |-> animationEndPosRef, kind |-> trace.session,
                                      at |-> sinceStart]>>
                              ELSE <<>>]]
        cleaned == IF mainChanged /\ cleanup THEN RunCleanup(begun) ELSE begun
        afterReset == ResetEffect(cleaned, p)
    IN  IF mainChanged THEN MainEffect(afterReset, p) ELSE afterReset

\* a render with new arguments
Render(p) ==
    /\ mounted = "yes"
    /\ updates < MaxUpdates
    /\ p.range = props.range
    /\ p # props
    /\ \E h \in {Committed(p, FALSE)} : Becomes(h)
    /\ props' = p
    /\ updates' = updates + 1
    /\ UNCHANGED <<mounted, cacheVars, geoVars, dirVars, busVars>>

\* a render with the same arguments but a new polyline array of the same points
Rerender ==
    /\ mounted = "yes"
    /\ updates < MaxUpdates
    /\ \E h \in {Committed(props, TRUE)} : Becomes(h)
    /\ updates' = updates + 1
    /\ UNCHANGED <<mounted, props, cacheVars, geoVars, dirVars, busVars>>

\* the browser runs a scheduled frame callback, dt frames after the last one
Frame(dt) ==
    /\ scheduled # {}
    /\ UNCHANGED <<mounted, props, updates, cacheVars, geoVars, dirVars, busVars>>
    /\ \E e \in scheduled : \E h \in {TickBody(Hook, e, sinceStart + dt)} : Becomes(h)

\* the component unmounts: React runs the cleanup of the main effect; with no
\* callback left that could reach them, the instance's refs are gone
Unmount ==
    /\ mounted = "yes"
    /\ mounted' = "gone"
    /\ \E h \in {IF cleanup THEN RunCleanup(Hook) ELSE Hook} :
          IF h.scheduled = {}
          THEN Becomes([Unused EXCEPT !.trace = [@ EXCEPT !.run = "unmount"]])
          ELSE Becomes([h EXCEPT !.trace = [@ EXCEPT !.run = "unmount"]])
    /\ UNCHANGED <<props, updates, cacheVars, geoVars, dirVars, busVars>>

AnimNext ==
    \/ \E s \in Samples, r \in Routes, range \in Ranges :
          Mount(RenderArgs(s, r, range, FirstKey))
    \/ \E s \in Samples, r \in Routes, key \in ResetKeys :
          Render(RenderArgs(s, r, props.range, key))
    \/ Rerender
    \/ \E dt \in 0..FramesPerMove : Frame(dt)
    \/ Unmount

\* ------------------------------------------------------------------------
\* The geometry functions called on their own
\* ------------------------------------------------------------------------
\* query points are the grid points up to MaxCoord in both coordinates
MaxCoord == 4

\* a route of six segments of two grid steps, one segment, a route whose
\* first two points coincide, and a route that ends where it began
Zigzag == <<<<0, 0>>, <<0, 2>>, <<2, 2>>, <<2, 0>>, <<4, 0>>, <<4, 2>>, <<4, 4>>>>
Diagonal == <<<<0, 0>>, <<3, 3>>>>
Doubled == <<<<1, 1>>, <<1, 1>>, <<3, 1>>>>
Loop == <<<<0, 0>>, <<0, 2>>, <<2, 2>>, <<2, 0>>, <<0, 0>>>>
Polylines == {Zigzag, Diagonal, Doubled, Loop}

Points == (0..MaxCoord) \X (0..MaxCoord)

\* segmentHint and minSegmentIndex: absent, below the range, in it, above it
SegmentHints == {NoHint, -2, 0, 1, 4, 9}

\* searchRadius: negative, 0 (also what an absent radius becomes), 1, 80
SearchRadii == {-1, 0, 1, 80}

GeoInit ==
    /\ geoPolyline \in Polylines
    /\ geoPoint \in Points
    /\ geoOptions \in [segmentHint : SegmentHints, searchRadius : SearchRadii,
                       minSegmentIndex : SegmentHints]
    /\ geoStart = <<>>
    /\ geoEnd = <<>>
    /\ geoPath = <<>>

\* no call is made
GeoIdle ==
    /\ geoPolyline = <<>>
    /\ geoPoint = <<0, 0>>
    /\ geoOptions = [segmentHint |-> NoHint, searchRadius |-> 0,
                     minSegmentIndex |-> NoHint]
    /\ geoStart = <<>>
    /\ geoEnd = <<>>
    /\ geoPath = <<>>

\* snapPointToPolyline(point, polyline, options)
SnapQuery ==
    /\ geoStart = <<>>
    /\ geoStart' = <<snapPointToPolyline(geoPoint, geoPolyline, geoOptions.segmentHint,
                                         geoOptions.searchRadius,
                                         geoOptions.minSegmentIndex)>>
    /\ UNCHANGED <<geoPolyline, geoPoint, geoOptions, geoEnd, geoPath, cacheVars, animVars, dirVars, busVars>>

\* lines 296-335 of the hook on their own: the target is snapped with the
\* hook's options (it passes no minSegmentIndex) and, the movement not being
\* backward, the path from the start snap to the target snap is built
MoveForward(target) ==
    /\ geoStart # <<>>
    /\ geoEnd = <<>>
    /\ geoOptions.minSegmentIndex = NoHint
    /\ LET startSnapped == geoStart[1]
           endSnapped == snapPointToPolyline(target, geoPolyline, geoOptions.segmentHint,
                                             geoOptions.searchRadius, NoHint)
       IN  /\ ~isBackwardProgress(startSnapped.segmentIndex, startSnapped.tNum,
                                  startSnapped.tDen, endSnapped.segmentIndex,
                                  endSnapped.tNum, endSnapped.tDen)
           /\ geoEnd' = <<endSnapped>>
           /\ geoPath' = buildPolylinePath(geoPolyline, startSnapped.position,
                                           startSnapped.segmentIndex, endSnapped.position,
                                           endSnapped.segmentIndex)
    /\ UNCHANGED <<geoPolyline, geoPoint, geoOptions, geoStart, cacheVars, animVars, dirVars, busVars>>

GeoNext ==
    \/ SnapQuery
    \/ \E target \in Points : MoveForward(target)

\* ------------------------------------------------------------------------
\* The direction resolver (stopFiltering.ts) called on its own
\* ------------------------------------------------------------------------
\* a query's order is NaN, infinite or one of 0..MaxOrder
MaxOrder == 4

UP == 1
DOWN == 0
\* the null a resolution returns when it finds no direction
NoDirection == -1

\* a string is the sequence of its characters; Null stands for null and for
\* undefined, which line 105 does not tell apart
Null == <<"null">>
Blank == <<" ", " ">>
NodeA == <<"a">>
NodeB == <<"b">>
NodeU == <<"u">>
PaddedA == <<" ", "a", " ">>
PaddedU == <<" ", "u">>

\* the allow-list is read from the environment; here it holds one node
ALWAYS_UPWARD_NODEIDS == {NodeU}

\* the numbers that are not finite, kept apart from every order and distance
NaN == -7777
Infinity == 9999
\* a test every number passes
AnyNumber(x) == TRUE

IsFinite(x) == x # NaN /\ -Infinity < x /\ x < Infinity

\* an absent routeid; the empty string is as falsy as undefined at line 117
NoRoute == ""

Abs(x) == IF x < 0 THEN -x ELSE x

RECURSIVE TrimStart(_)
TrimStart(str) == IF str # <<>> /\ Head(str) = " " THEN TrimStart(Tail(str)) ELSE str

RECURSIVE TrimEnd(_)
TrimEnd(str) ==
    IF str # <<>> /\ str[Len(str)] = " " THEN TrimEnd(SubSeq(str, 1, Len(str) - 1)) ELSE str

\* String.prototype.trim
trim(str) == TrimEnd(TrimStart(str))

\* the stops of all sequences in the order the loops of lines 75-80 visit them
RECURSIVE Visited(_)
Visited(sequences) ==
    IF sequences = <<>> THEN <<>>
    ELSE LET first == Head(sequences)
         IN  [i \in 1..Len(first.sequence) |->
                 [nodeid |-> first.sequence[i].nodeid, routeid |-> first.routeid,
                  nodeord |-> first.sequence[i].nodeord,
                  updowncd |-> first.sequence[i].updowncd]]
             \o Visited(Tail(sequences))

\* lines 75-80: per nodeid the candidates in the order they were pushed
SequenceMap(sequences) ==
    LET visited == Visited(sequences)
        nodeids == {visited[i].nodeid : i \in 1..Len(visited)}
        Pushed(n) == SelectSeq(visited, LAMBDA c : c.nodeid = n)
    IN  [n \in nodeids |->
            [i \in 1..Len(Pushed(n)) |->
                [routeid |-> Pushed(n)[i].routeid, nodeord |-> Pushed(n)[i].nodeord,
                 updowncd |-> Pushed(n)[i].updowncd]]]

\* lines 82-86: a variant is mixed when its sequence holds more than one
\* direction code; a routeid set twice keeps what the last sequence set
RouteMixedDirMap(sequences) ==
    LET routeids == {sequences[i].routeid : i \in 1..Len(sequences)}
        Last(r) == CHOOSE i \in 1..Len(sequences) :
                       /\ sequences[i].routeid = r
                       /\ \A j \in (i + 1)..Len(sequences) : sequences[j].routeid # r
        Codes(i) == {sequences[i].sequence[k].updowncd : k \in 1..Len(sequences[i].sequence)}
    IN  [r \in routeids |-> Cardinality(Codes(Last(r))) > 1]

\* a fallback for the first two variants however many there are
FallbackForFirstTwo(routeIdOrder) ==
    IF Len(routeIdOrder) >= 2
    THEN [r \in {routeIdOrder[1], routeIdOrder[2]} |->
             IF r = routeIdOrder[2] THEN DOWN ELSE UP]
    ELSE [r \in {} |-> DOWN]

\* lines 88-92: with exactly two variants the first is UP and the second DOWN
FallbackDirMap(routeIdOrder) ==
    IF Len(routeIdOrder) = 2
    THEN [r \in {routeIdOrder[1], routeIdOrder[2]} |->
             IF r = routeIdOrder[2] THEN DOWN ELSE UP]
    ELSE [r \in {} |-> DOWN]

buildDirectionLookup(routeState) ==
    [sequenceMap |-> SequenceMap(routeState.sequences),
     routeMixedDirMap |-> RouteMixedDirMap(routeState.sequences),
     fallbackDirMap |-> FallbackDirMap(routeState.routeIdOrder),
     activeRouteIds |-> {routeState.sequences[i].routeid : i \in 1..Len(routeState.sequences)}]

\* a pool that is never narrowed
AllCandidates(lookup, candidates, routeid) == candidates

\* lines 117-121: the candidates of the asked variant, or without a variant
\* those of the active variants; all candidates when that leaves none
Pool(lookup, candidates, routeid) ==
    LET scopedCandidates ==
            IF routeid # NoRoute
            THEN SelectSeq(candidates, LAMBDA c : c.routeid = routeid)
            ELSE SelectSeq(candidates, LAMBDA c : c.routeid \in lookup.activeRouteIds)
    IN  IF Len(scopedCandidates) > 0 THEN scopedCandidates ELSE candidates

\* the callback without its second test: the earlier of two candidates at
\* the same distance stays
StrictlyCloser(best, curr, targetOrd) ==
    IF Abs(curr.nodeord - targetOrd) < Abs(best.nodeord - targetOrd) THEN curr ELSE best

\* the callback of the reduce at lines 125-131
Closer(best, curr, targetOrd) ==
    LET bestDiff == Abs(best.nodeord - targetOrd)
        currDiff == Abs(curr.nodeord - targetOrd)
    IN  IF currDiff < bestDiff THEN curr
        ELSE IF currDiff = bestDiff /\ curr.nodeord < best.nodeord THEN curr
        ELSE best

RECURSIVE Reduce(_, _, _)
Reduce(pool, best, targetOrd) ==
    IF pool = <<>> THEN best
    ELSE Reduce(Tail(pool), Closer(best, Head(pool), targetOrd), targetOrd)

\* the first candidate pushed, whatever its order
FirstCandidate(pool, targetOrd) == pool[1]

\* lines 123-131: the first candidate at the target order, else the nearest
BestMatch(pool, targetOrd) ==
    LET exact == SelectSeq(pool, LAMBDA c : c.nodeord = targetOrd)
    IN  IF exact # <<>> THEN Head(exact) ELSE Reduce(pool, pool[1], targetOrd)

\* the fallback of the variant whenever it has one, mixed or not
FallbackFirst(lookup, bestMatch) ==
    IF bestMatch.routeid \in DOMAIN lookup.fallbackDirMap
    THEN lookup.fallbackDirMap[bestMatch.routeid]
    ELSE IF bestMatch.updowncd = 0 THEN DOWN ELSE UP

\* lines 135-140
DirectionOf(lookup, bestMatch) ==
    LET isMixed == IF bestMatch.routeid \in DOMAIN lookup.routeMixedDirMap
                   THEN lookup.routeMixedDirMap[bestMatch.routeid] ELSE FALSE
        hasFallback == bestMatch.routeid \in DOMAIN lookup.fallbackDirMap
    IN  IF ~isMixed /\ hasFallback THEN lookup.fallbackDirMap[bestMatch.routeid]
        ELSE IF bestMatch.updowncd = 0 THEN DOWN ELSE UP

\* an allow-list that holds no node
NeverUpward(normalizedNodeId) == FALSE

\* line 112
AlwaysUpward(normalizedNodeId) == normalizedNodeId \in ALWAYS_UPWARD_NODEIDS

\* a resolution that ended before a candidate was chosen
Without(direction) == [bestMatch |-> <<>>, direction |-> direction]

\* resolveDirection with its local bestMatch kept beside the value returned
Resolution(lookup, nodeid, nodeord, routeid) ==
    IF nodeid = Null \/ nodeid = <<>> THEN Without(NoDirection)
    ELSE LET normalizedNodeId == trim(nodeid)
         IN  IF normalizedNodeId = <<>> THEN Without(NoDirection)
             ELSE IF ~IsFinite(nodeord) THEN Without(NoDirection)
             ELSE IF AlwaysUpward(normalizedNodeId) THEN Without(UP)
             ELSE IF normalizedNodeId \notin DOMAIN lookup.sequenceMap
                  THEN Without(NoDirection)
             ELSE LET pool == Pool(lookup, lookup.sequenceMap[normalizedNodeId], routeid)
                      bestMatch == BestMatch(pool, nodeord)
                  IN  [bestMatch |-> <<bestMatch>>,
                       direction |-> DirectionOf(lookup, bestMatch)]

resolveDirection(lookup, nodeid, nodeord, routeid) ==
    Resolution(lookup, nodeid, nodeord, routeid).direction

\* the stops a variant's sequence can hold: node a at orders 1 and 3, one
\* stop of a at order 2 followed by the allow-listed node, node a at orders
\* 3 and 1 with both direction codes, and a sequence without node a
Stop(nodeid, nodeord, updowncd) ==
    [nodeid |-> nodeid, nodeord |-> nodeord, updowncd |-> updowncd]

StopLists ==
    {<<Stop(NodeA, 1, 1), Stop(NodeA, 3, 1)>>,
     <<Stop(NodeA, 2, 0), Stop(NodeU, 2, 0)>>,
     <<Stop(NodeA, 3, 1), Stop(NodeA, 1, 0)>>,
     <<Stop(NodeB, 1, 0)>>}

Variants == {"r1", "r2", "r3"}

\* one to three variants, each loaded once, in any order
SequenceLists ==
    {sequences \in UNION {[1..n -> [routeid : Variants, sequence : StopLists]] : n \in 1..3} :
        \A i, j \in 1..Len(sequences) :
            sequences[i].routeid = sequences[j].routeid => i = j}

NodeIds == {Null, <<>>, Blank, NodeA, PaddedA, NodeB, NodeU, PaddedU}
NodeOrds == {NaN, Infinity, -Infinity} \cup 0..MaxOrder
RouteIds == {NoRoute} \cup Variants

\* useBusDirection.ts lines 60-63: routeIdOrder lists the loaded variants
RouteState == [sequences |-> dirSequences,
               routeIdOrder |-> [i \in 1..Len(dirSequences) |-> dirSequences[i].routeid]]

DirInit ==
    /\ dirSequences \in SequenceLists
    /\ dirNodeId = Null
    /\ dirNodeOrd = 0
    /\ dirRouteId = NoRoute
    /\ dirLookup = <<>>
    /\ dirResult = <<>>

\* no route is loaded
DirIdle ==
    /\ dirSequences = <<>>
    /\ dirNodeId = Null
    /\ dirNodeOrd = 0
    /\ dirRouteId = NoRoute
    /\ dirLookup = <<>>
    /\ dirResult = <<>>

\* buildDirectionLookup(state), as useBusDirection.ts calls it at lines 81-84
BuildLookup ==
    /\ dirLookup = <<>>
    /\ dirLookup' = <<buildDirectionLookup(RouteState)>>
    /\ UNCHANGED <<dirSequences, dirNodeId, dirNodeOrd, dirRouteId, dirResult,
                   cacheVars, animVars, geoVars, busVars>>

\* resolveDirection(lookup, nodeid, nodeord, routeid) on the lookup built
Resolve(nodeid, nodeord, routeid) ==
    /\ dirLookup # <<>>
    /\ dirResult = <<>>
    /\ dirNodeId' = nodeid
    /\ dirNodeOrd' = nodeord
    /\ dirRouteId' = routeid
    /\ dirResult' = <<Resolution(dirLookup[1], nodeid, nodeord, routeid)>>
    /\ UNCHANGED <<dirSequences, dirLookup, cacheVars, animVars, geoVars, busVars>>

DirNext ==
    \/ BuildLookup
    \/ \E nodeid \in NodeIds, nodeord \in NodeOrds, routeid \in RouteIds :
           Resolve(nodeid, nodeord, routeid)

\* ------------------------------------------------------------------------
\* The hook useBusDirection (useBusDirection.ts)
\* ------------------------------------------------------------------------
\* number of renders with another routeName after the first render
MaxRouteChanges == 2

\* routes A (two variants) and B (one variant) are in the route map, X is not
RouteNames == {"A", "B", "X"}

\* what getRouteInfo and getRouteDetails deliver for a route of the route map
RouteData(routeName) ==
    IF routeName = "A"
    THEN <<[routeid |-> "r1", sequence |-> <<Stop(NodeA, 1, 1), Stop(NodeA, 3, 1)>>],
           [routeid |-> "r2", sequence |-> <<Stop(NodeA, 2, 0), Stop(NodeU, 2, 0)>>]>>
    ELSE IF routeName = "B"
    THEN <<[routeid |-> "r3", sequence |-> <<Stop(NodeA, 3, 1), Stop(NodeA, 1, 0)>>]>>
    ELSE <<>>

\* getRouteInfo returns null for a route the route map does not hold
Known(routeName) == RouteData(routeName) # <<>>

\* {sequences: [], routeIdOrder: []}
EmptyRouteState == [sequences |-> <<>>, routeIdOrder |-> <<>>]

\* lines 59-63: the state a finished load sets
LoadedRouteState(routeName) ==
    [sequences |-> RouteData(routeName),
     routeIdOrder |-> [i \in 1..Len(RouteData(routeName)) |-> RouteData(routeName)[i].routeid]]

\* the orders getDirection is asked at, for node a and no routeid
AskedOrds == {1, 3}

\* a load whose effect was cleaned up counts as mounted all the same
AliveAlways(load) == TRUE

\* if (isMounted)
Alive(load) == load.isMounted

\* a load goes from "info" (awaiting getRouteInfo) to "unknown", or to
\* "details" (awaiting the route details) and on to "loaded" or "failed";
\* applied says whether it was mounted when it ended
Ended(load, stage) == [load EXCEPT !.stage = stage, !.applied = Alive(load)]

BusInit ==
    /\ busRouteName \in RouteNames
    /\ busEffectPending = TRUE
    /\ busIsReady = FALSE
    /\ busRouteState = EmptyRouteState
    /\ busLoads = <<>>
    /\ busAnswer = <<>>
    /\ busChanges = 0

\* the hook is not rendered
BusIdle ==
    /\ busRouteName = ""
    /\ busEffectPending = FALSE
    /\ busIsReady = FALSE
    /\ busRouteState = EmptyRouteState
    /\ busLoads = <<>>
    /\ busAnswer = <<>>
    /\ busChanges = 0

\* a render with another routeName; React runs the effects of a render
\* before it renders again
ChangeRoute(routeName) ==
    /\ busRouteName # ""
    /\ ~busEffectPending
    /\ busChanges < MaxRouteChanges
    /\ routeName # busRouteName
    /\ busRouteName' = routeName
    /\ busEffectPending' = TRUE
    /\ busChanges' = busChanges + 1
    /\ UNCHANGED <<busIsReady, busRouteState, busLoads, busAnswer,
                   cacheVars, animVars, geoVars, dirVars>>

\* the effect of lines 37-78: the cleanup of the previous run (75-77), then
\* loadData up to its first await (41-45)
RunEffect ==
    /\ busEffectPending
    /\ busEffectPending' = FALSE
    /\ busIsReady' = FALSE
    /\ busRouteState' = EmptyRouteState
    /\ busLoads' = Append([i \in 1..Len(busLoads) |-> [busLoads[i] EXCEPT !.isMounted = FALSE]],
                          [routeName |-> busRouteName, isMounted |-> TRUE,
                           stage |-> "info", applied |-> FALSE])
    /\ UNCHANGED <<busRouteName, busAnswer, busChanges, cacheVars, animVars, geoVars, dirVars>>

\* getRouteInfo settles (lines 45-49). Updates a load makes while an effect
\* is pending are rendered only after that effect has overwritten them, so a
\* load is taken to continue after the pending effect.
InfoArrives(i) ==
    /\ ~busEffectPending
    /\ busLoads[i].stage = "info"
    /\ IF Known(busLoads[i].routeName)
       THEN /\ busLoads' = [busLoads EXCEPT ![i].stage = "details"]
            /\ UNCHANGED busRouteState
       ELSE /\ busLoads' = [busLoads EXCEPT ![i] = Ended(@, "unknown")]
            /\ busRouteState' = IF Alive(busLoads[i]) THEN EmptyRouteState ELSE busRouteState
    /\ UNCHANGED <<busRouteName, busEffectPending, busIsReady, busAnswer, busChanges,
                   cacheVars, animVars, geoVars, dirVars>>

\* every getRouteDetails has resolved (lines 51-65)
DetailsArrive(i) ==
    /\ ~busEffectPending
    /\ busLoads[i].stage = "details"
    /\ busLoads' = [busLoads EXCEPT ![i] = Ended(@, "loaded")]
    /\ IF Alive(busLoads[i])
       THEN /\ busRouteState' = LoadedRouteState(busLoads[i].routeName)
            /\ busIsReady' = TRUE
       ELSE UNCHANGED <<busRouteState, busIsReady>>
    /\ UNCHANGED <<busRouteName, busEffectPending, busAnswer, busChanges,
                   cacheVars, animVars, geoVars, dirVars>>

\* a getRouteDetails has rejected (lines 66-71)
DetailsFail(i) ==
    /\ ~busEffectPending
    /\ busLoads[i].stage = "details"
    /\ busLoads' = [busLoads EXCEPT ![i] = Ended(@, "failed")]
    /\ busRouteState' = IF Alive(busLoads[i]) THEN EmptyRouteState ELSE busRouteState
    /\ UNCHANGED <<busRouteName, busEffectPending, busIsReady, busAnswer, busChanges,
                   cacheVars, animVars, geoVars, dirVars>>

\* the lookup of lines 81-84 and getDirection (87-93) for node a
GetDirection(nodeord) ==
    /\ busRouteName # ""
    /\ busAnswer' =
           <<[nodeord |-> nodeord,
              direction |-> IF ~busIsReady THEN NoDirection
                            ELSE resolveDirection(buildDirectionLookup(busRouteState),
                                                  NodeA, nodeord, NoRoute)]>>
    /\ busAnswer' # busAnswer
    /\ UNCHANGED <<busRouteName, busEffectPending, busIsReady, busRouteState, busLoads,
                   busChanges, cacheVars, animVars, geoVars, dirVars>>

BusNext ==
    \/ \E routeName \in RouteNames : ChangeRoute(routeName)
    \/ RunEffect
    \/ \E i \in 1..Len(busLoads) : InfoArrives(i)
    \/ \E i \in 1..Len(busLoads) : DetailsArrive(i)
    \/ \E i \in 1..Len(busLoads) : DetailsFail(i)
    \/ \E nodeord \in AskedOrds : GetDirection(nodeord)

\* ------------------------------------------------------------------------
\* Claims about the animator
\* ------------------------------------------------------------------------
\* C9: at every moment at most one frame callback is scheduled, and no
\* scheduled callback belongs to a session that a later session or a reset
\* has superseded
C9_OneFrameCallbackScheduled ==
    /\ Cardinality(scheduled) <= 1
    /\ \A e \in scheduled : ~e.stale

\* C9 witness: an animation was started while another was in flight, and
\* exactly the new session's callback is scheduled
C9_Witness ==
    /\ trace.run = "forward"
    /\ trace.old # <<>>
    /\ scheduled = {[id |-> animationRef, stale |-> FALSE]}

\* C10: a Forward target arriving while an animation is in flight replaces the
\* session (one fresh callback, the new end position, time restarted), and the
\* frame that completes a session leaves the marker at the snap of the latest
\* target
C10_ForwardTargetSupersedes ==
    [][/\ \A s \in Samples, r \in Routes, key \in ResetKeys :
            LET p == RenderArgs(s, r, props.range, key)
            IN  (scheduled # {} /\ trace'.run = "forward" /\ Render(p))
                    => /\ scheduled' = {[id |-> animationRef', stale |-> FALSE]}
                       /\ animationEndPosRef' = SnapWith(p.target, p, p.hint).position
                       /\ sinceStart' = 0
                       /\ prevTargetRef' = p.target
       /\ \A dt \in 0..FramesPerMove :
            (trace'.run = "settle" /\ Frame(dt))
                => /\ currentPosRef' = Shown(props)
                   /\ state'.position = Shown(props)
                   /\ prevTargetRef = props.target
                   /\ scheduled' = {}
                   /\ animationRef' = NoFrame
      ]_vars

\* C10 witness: a Forward session that superseded a Forward session part-way
\* through has settled, at the snap of the latest target and away from the
\* superseded session's end
C10_Witness ==
    /\ trace.run = "settle"
    /\ trace.session = "forward"
    /\ trace.old # <<>>
    /\ trace.old[1].kind = "forward"
    /\ trace.old[1].at > 0
    /\ trace.old[1].end # currentPosRef
    /\ currentPosRef = SnapWith(props.target, props, props.hint).position
    /\ scheduled = {}

\* C11: a Backward-small target is discarded entirely: position and angle stay
\* as they were, and a frame callback that was scheduled stays scheduled, with
\* its session's path and end position, so the animation in flight keeps
\* running to its own target
C11_JitterLeavesAnimationRunning ==
    [][\A s \in Samples, r \in Routes, key \in ResetKeys :
          LET p == RenderArgs(s, r, props.range, key)
          IN  (trace'.run = "jitter" /\ Render(p))
                  => /\ currentPosRef' = currentPosRef
                     /\ currentAngleRef' = currentAngleRef
                     /\ state' = state
                     /\ scheduled' = scheduled
                     /\ animationPathRef' = animationPathRef
                     /\ animationEndPosRef' = animationEndPosRef
      ]_vars

\* C12: a Backward-small sample fed to a settled animator leaves position,
\* angle, segment hint and the (empty) frame schedule as they were, and the
\* same sample fed again (the effect runs again for the same arguments) leaves
\* them as they were once more
C12_RepeatedJitterSampleIdempotent ==
    [][/\ \A s \in Samples, r \in Routes, key \in ResetKeys :
            LET p == RenderArgs(s, r, props.range, key)
            IN  (scheduled = {} /\ trace'.run = "jitter" /\ Render(p))
                    => UNCHANGED <<currentPosRef, currentAngleRef, state,
                                   prevSnapIndexRef, scheduled>>
       /\ (trace.run = "jitter" /\ trace.old = <<>> /\ Rerender)
            => UNCHANGED <<currentPosRef, currentAngleRef, state,
                           prevSnapIndexRef, scheduled>>
      ]_vars

\* C13: a Backward-large target moves the marker at once: in the step that
\* receives it the position is the target's snap, the angle the bearing of the
\* snapped segment, the callback of an animation in flight is cancelled and no
\* callback is scheduled
C13_BackwardLargeTeleports ==
    [][\A s \in Samples, r \in Routes, key \in ResetKeys :
          LET p == RenderArgs(s, r, props.range, key)
              snapped == SnapWith(p.target, p, p.hint)
          IN  (trace'.run = "teleport" /\ props' = p /\ Render(p))
                  => /\ currentPosRef' = snapped.position
                     /\ state'.position = snapped.position
                     /\ currentAngleRef' =
                            calculateBearing(p.polyline[snapped.segmentIndex + 1],
                                             p.polyline[snapped.segmentIndex + 2])
                     /\ state'.angle = currentAngleRef'
                     /\ scheduled' = {}
      ]_vars

\* C13 witness: a target far behind arrived while an animation was part-way,
\* and the marker stands at the target's snap, away from where it was going,
\* with nothing scheduled
C13_Witness ==
    /\ trace.run = "teleport"
    /\ trace.old # <<>>
    /\ trace.old[1].at > 0
    /\ trace.old[1].end # currentPosRef
    /\ currentPosRef = SnapWith(props.target, props, props.hint).position
    /\ currentPosRef # props.target
    /\ scheduled = {}

\* C14: a render with a new reset key cancels the scheduled frame callback and
\* puts the marker, in that step, at the snap of the new target on the new
\* polyline (at the raw target without a usable polyline); no animation is
\* started, wherever the new target lies
C14_ResetSnapsWithoutAnimation ==
    [][\A s \in Samples, r \in Routes, key \in ResetKeys :
          LET p == RenderArgs(s, r, props.range, key)
          IN  (key # resetKeyRef /\ props' = p /\ Render(p))
                  => /\ scheduled' = {}
                     /\ animationRef' = NoFrame
                     /\ currentPosRef' = Shown(p)
                     /\ state'.position = Shown(p)
                     /\ trace'.session = "none"
                     /\ resetKeyRef' = key
      ]_vars

\* C14 witness: the reset key changed while an animation was part-way; the
\* marker stands at the snap of the new target, which is not where the
\* animation was going, and nothing is scheduled
C14_Witness ==
    /\ trace.reset
    /\ trace.old # <<>>
    /\ trace.old[1].at > 0
    /\ trace.old[1].end # currentPosRef
    /\ Snapping(props)
    /\ currentPosRef = SnapWith(props.target, props, props.hint).position
    /\ currentPosRef # props.target
    /\ scheduled = {}
    /\ animationRef = NoFrame

\* C15: the first sample puts the marker at the sample's snap onto the
\* polyline (at the raw sample without a usable polyline) and schedules no
\* frame callback: Uninitialized to Snapped without animation
C15_FirstSampleSnaps ==
    [][\A s \in Samples, r \in Routes, range \in Ranges :
          LET p == RenderArgs(s, r, range, FirstKey)
          IN  (mounted = "no" /\ props' = p /\ Mount(p))
                  => /\ currentPosRef' = Shown(p)
                     /\ state'.position = Shown(p)
                     /\ currentPosRef' = IF p.snap /\ Len(p.polyline) >= 2
                                         THEN snapPointToPolyline(p.target, p.polyline,
                                                  p.hint, p.range, NoHint).position
                                         ELSE p.target
                     /\ scheduled' = {}
                     /\ animationRef' = NoFrame
                     /\ ~isFirstRender'
                     /\ trace'.session = "none"
      ]_vars

\* C15 witness: the first sample lay beside the route and the marker stands at
\* its snap, with nothing scheduled
C15_Witness ==
    /\ trace.run = "first"
    /\ updates = 0
    /\ Snapping(props)
    /\ currentPosRef = SnapWith(props.target, props, props.hint).position
    /\ currentPosRef # props.target
    /\ state.position = currentPosRef
    /\ scheduled = {}

C17_FinalTickLandsOnEnd ==
    [][\A dt \in 0..FramesPerMove :
          (sinceStart + dt >= duration /\ Frame(dt))
              => /\ currentPosRef' = animationEndPosRef
                 /\ currentAngleRef' = animationEndAngleRef
                 /\ state' = [position |-> animationEndPosRef,
                              angle |-> animationEndAngleRef]
                 /\ scheduled' = {}
                 /\ animationRef' = NoFrame
                 /\ UNCHANGED <<animationEndPosRef, animationEndAngleRef>>
      ]_vars

\* C17 witness: a straight-line session whose end angle is not the bearing of
\* its path has received its last frame: the marker shows the end position
\* and the end angle, and nothing is scheduled
C17_Witness ==
    /\ trace.run = "settle"
    /\ trace.session = "direct"
    /\ sinceStart = duration
    /\ Len(animationPathRef) = 2
    /\ animationPathRef[1] # animationPathRef[2]
    /\ currentPosRef = animationEndPosRef
    /\ currentPosRef = animationPathRef[2]
    /\ currentAngleRef = animationEndAngleRef
    /\ currentAngleRef # calculateBearing(animationPathRef[1], animationPathRef[2])
    /\ state = [position |-> currentPosRef, angle |-> currentAngleRef]
    /\ scheduled = {}
    /\ animationRef = NoFrame

\* C19: without a usable polyline (fewer than 2 points, or snapping off) every
\* target with other coordinates than the previous target (and no reset)
\* starts an animation along the straight line from the current position to
\* the raw target: it is not ignored and the marker does not jump; the frames
\* of such a session move the marker by the same easing over the same duration
C19_NoPolylineAnimatesDirect ==
    [][/\ \A s \in Samples, r \in Routes :
            LET p == RenderArgs(s, r, props.range, resetKeyRef)
            IN  (/\ ~(p.snap /\ Len(p.polyline) >= 2)
                 /\ p.target # prevTargetRef
                 /\ props' = p
                 /\ Render(p))
                    => /\ trace'.run = "direct"
                       /\ animationPathRef' = <<currentPosRef, p.target>>
                       /\ animationEndPosRef' = p.target
                       /\ animationEndAngleRef' = p.angle
                       /\ sinceStart' = 0
                       /\ scheduled' = {[id |-> animationRef', stale |-> FALSE]}
                       /\ currentPosRef' = currentPosRef
                       /\ state' = state
                       /\ prevTargetRef' = p.target
       /\ \A dt \in 0..FramesPerMove :
            (trace.session = "direct" /\ sinceStart + dt < duration /\ Frame(dt))
                => /\ currentPosRef' =
                        interpolateAlongPath(animationPathRef,
                                             easeOutCubicNum(sinceStart + dt, duration),
                                             easeOutCubicDen(duration)).position
                   /\ state'.position = currentPosRef'
                   /\ Cardinality(scheduled') = 1
      ]_vars

\* C19 witness: snapping was asked for but the polyline is empty; a target
\* elsewhere arrived while an animation was part-way, and a straight-line
\* session from the marker's position to the raw target has begun
C19_Witness ==
    /\ trace.run = "direct"
    /\ trace.old # <<>>
    /\ trace.old[1].at > 0
    /\ props.snap
    /\ props.polyline = NoLine
    /\ animationPathRef = <<currentPosRef, props.target>>
    /\ currentPosRef # props.target
    /\ animationEndPosRef = props.target
    /\ sinceStart = 0
    /\ scheduled = {[id |-> animationRef, stale |-> FALSE]}

\* the target's snap lies ahead of the start's: on a later segment, or on the
\* same segment at a t not more than 1e-3 below the start's
Forward(startSnapped, endSnapped) ==
    \/ endSnapped.segmentIndex > startSnapped.segmentIndex
    \/ /\ endSnapped.segmentIndex = startSnapped.segmentIndex
       /\ 1000 * endSnapped.tNum * startSnapped.tDen
              >= (1000 * startSnapped.tNum - startSnapped.tDen) * endSnapped.tDen

\* C30: with a usable polyline, a target whose coordinates differ from the
\* previous target's is Forward exactly when its snapped segment index is
\* greater than the start's, or the indices are equal and its t is at least
\* the start's t - 1e-3, and Backward otherwise; a Forward target starts an
\* animation towards its snap in that step and is neither ignored nor shown
\* at once, and a Backward target starts none.
C30_ForwardAnimatesBackwardDoesNot ==
    [][\A s \in Samples, r \in Routes :
          LET p == RenderArgs(s, r, props.range, resetKeyRef)
              startSnapped == SnapWith(currentPosRef, p, prevSnapIndexRef)
              endSnapped == SnapWith(p.target, p, p.hint)
          IN  (/\ props' = p
               /\ ~isFirstRender
               /\ Snapping(p)
               /\ p.target # prevTargetRef
               /\ Render(p))
                  => IF Forward(startSnapped, endSnapped)
                     THEN /\ trace'.run = "forward"
                          /\ \E e \in scheduled' : ~e.stale /\ e.id = animationRef'
                          /\ sinceStart' = 0
                          /\ animationEndPosRef' = endSnapped.position
                          /\ animationPathRef'[1] = startSnapped.position
                          /\ state' = state
                     ELSE /\ trace'.run \in {"jitter", "teleport"}
                          /\ trace'.session = "none"
                          /\ scheduled' \subseteq scheduled
                          /\ \A e \in scheduled' : e.stale
      ]_vars

\* C30 witness: the target snapped onto the segment the marker was on, ahead
\* of it, and an animation along that segment to the target's snap began
C30_Witness ==
    /\ trace.run = "forward"
    /\ Len(animationPathRef) = 2
    /\ sinceStart = 0
    /\ animationEndPosRef = SnapWith(props.target, props, props.hint).position
    /\ animationEndPosRef # currentPosRef
    /\ \E e \in scheduled : ~e.stale /\ e.id = animationRef

\* a render reaches the classification of the main effect with arguments p
Classifies(p) ==
    /\ props' = p
    /\ ~isFirstRender
    /\ Snapping(p)
    /\ p.target # prevTargetRef
    /\ Render(p)

\* where the step that received p put the end of the movement: the end of
\* the session it started, or the marker itself after a teleport
EndGiven == IF trace'.run = "forward" THEN animationEndPosRef' ELSE currentPosRef'

\* C31 as stated: on a target with different coordinates and a usable
\* polyline, the current position and the new target are both snapped with
\* the session's last known segment index as the search hint.
C31_BothSnapsUseLastIndex ==
    [][\A s \in Samples, r \in Routes :
          LET p == RenderArgs(s, r, props.range, resetKeyRef)
          IN  (trace'.run \in {"forward", "teleport"} /\ Classifies(p))
                  => /\ trace'.run = "forward" =>
                            animationPathRef'[1] =
                                snapPointToPolyline(currentPosRef, p.polyline,
                                                    prevSnapIndexRef, p.range,
                                                    NoHint).position
                     /\ EndGiven =
                            snapPointToPolyline(p.target, p.polyline, prevSnapIndexRef,
                                                p.range, NoHint).position
      ]_vars

\* C31 amended: the current position is snapped with the session's last
\* known segment index as the search hint, and the new target with the
\* segment hint that came with it (over the whole polyline when none came).
C31_StartUsesLastIndexEndUsesHint ==
    [][\A s \in Samples, r \in Routes :
          LET p == RenderArgs(s, r, props.range, resetKeyRef)
          IN  (trace'.run \in {"forward", "teleport"} /\ Classifies(p))
                  => /\ trace'.run = "forward" =>
                            animationPathRef'[1] =
                                snapPointToPolyline(currentPosRef, p.polyline,
                                                    prevSnapIndexRef, p.range,
                                                    NoHint).position
                     /\ EndGiven =
                            snapPointToPolyline(p.target, p.polyline, p.hint, p.range,
                                                NoHint).position
      ]_vars

\* C31 witness: with no hint and no search radius, a marker known to be on
\* segment 0 was sent to a target beside segment 1, and the session ends on
\* segment 1, where a search around segment 0 alone cannot end
C31_Witness ==
    /\ trace.run = "forward"
    /\ props.hint = NoHint /\ props.range = 0
    /\ Len(animationPathRef) = 3
    /\ animationEndPosRef = snapPointToPolyline(props.target, props.polyline, NoHint, 0,
                                                NoHint).position
    /\ animationEndPosRef # snapPointToPolyline(props.target, props.polyline, 0, 0,
                                                NoHint).position

\* C32 as stated: after a Backward-large teleport the session's last known
\* segment index is the segment index of the new target's snap.
C32_TeleportSetsIndexToSnap ==
    [][\A s \in Samples, r \in Routes :
          LET p == RenderArgs(s, r, props.range, resetKeyRef)
              snapped == snapPointToPolyline(p.target, p.polyline, p.hint, p.range, NoHint)
          IN  (trace'.run = "teleport" /\ Classifies(p))
                  => prevSnapIndexRef' = snapped.segmentIndex
      ]_vars

\* C32 amended: after a Backward-large teleport the session's last known
\* segment index is the segment hint that came with the target, and the
\* segment index of the target's snap when none came; either way the window
\* the next start snap searches with the same search radius holds the segment
\* the marker was put on.
C32_TeleportSetsIndexToHintOrSnap ==
    [][\A s \in Samples, r \in Routes :
          LET p == RenderArgs(s, r, props.range, resetKeyRef)
              snapped == snapPointToPolyline(p.target, p.polyline, p.hint, p.range, NoHint)
              around == Clamp(prevSnapIndexRef', 0, Len(p.polyline) - 2)
          IN  (trace'.run = "teleport" /\ Classifies(p))
                  => /\ prevSnapIndexRef' =
                            IF p.hint # NoHint THEN p.hint ELSE snapped.segmentIndex
                     /\ currentPosRef' = snapped.position
                     /\ around - Max(0, p.range) <= snapped.segmentIndex
                     /\ snapped.segmentIndex <= around + Max(0, p.range)
      ]_vars

\* C32 witness: the target came with hint 1 and search radius 1 and snapped
\* onto segment 0; the marker stands there and the last known index is 1
C32_Witness ==
    /\ trace.run = "teleport"
    /\ props.hint = 1 /\ props.range = 1
    /\ currentPosRef = snapPointToPolyline(props.target, props.polyline, 1, 1,
                                           NoHint).position
    /\ snapPointToPolyline(props.target, props.polyline, 1, 1, NoHint).segmentIndex = 0
    /\ prevSnapIndexRef = 1

\* an animation is under way: its first frame has run and the next is scheduled
Underway == scheduled # {} /\ trace.run = "tick"

\* the last frame of a session has put the marker on the session's end
Settled == scheduled = {} /\ trace.run = "settle" /\ currentPosRef = animationEndPosRef

\* a target with other coordinates or a reset has arrived, or the component
\* is gone
Overtaken ==
    \/ mounted # "yes"
    \/ trace.reset
    \/ trace.run \in {"forward", "direct", "jitter", "teleport", "unmount"}

\* C35: every animation that has been started eventually settles at its end
\* position, provided frame callbacks keep firing and no later target with
\* different coordinates and no reset arrives; updates that keep the target's
\* coordinates and change its angle, the segment hint or the polyline do not
\* stop it from settling.
C35_StartedAnimationSettles == Underway ~> (Settled \/ Overtaken)

\* the bearings of the segments of a path
SegmentBearings(path) ==
    {calculateBearing(path[i], path[i + 1]) : i \in 1..(Len(path) - 1)}

\* C38: whenever an animation session is running its active path has at least
\* two points, the snapped forward path and the straight-line fallback alike,
\* so every frame callback runs with a path of more than one point (the
\* circular interpolation between start and end angle is never taken), and a
\* frame that leaves the animation running shows the bearing of a segment of
\* the path.
C38_RunningPathHasTwoPoints ==
    [][/\ scheduled' # {} => Len(animationPathRef') >= 2
       /\ (\E dt \in 0..FramesPerMove : Frame(dt))
             => /\ Len(animationPathRef) >= 2
                /\ trace'.run = "tick" => currentAngleRef' \in SegmentBearings(animationPathRef)]_vars

\* C38 witness: a frame has run on a snapped forward path that turns a corner
\* of the polyline, and the animation goes on
C38_Witness ==
    /\ trace.run = "tick"
    /\ trace.session = "forward"
    /\ scheduled # {}
    /\ Len(animationPathRef) >= 3
    /\ currentAngleRef \in SegmentBearings(animationPathRef)

\* the marker stands on the polyline of the last render: snapping it over the
\* whole polyline leaves it where it is
OnPolyline ==
    snapPointToPolyline(currentPosRef, props.polyline, NoHint, props.range, NoHint).position
        = currentPosRef

\* C39: whenever snapping is enabled with a usable polyline and no animation is
\* in flight (no frame callback scheduled, no session open), the current
\* position is a point of the current polyline, after any sequence of samples,
\* polyline changes, resets, ignored jitter and teleports.
C39_IdleMarkerOnPolyline ==
    (mounted = "yes" /\ Snapping(props) /\ scheduled = {} /\ animationRef = NoFrame)
        => OnPolyline

\* ------------------------------------------------------------------------
\* Claims about the geometry functions
\* ------------------------------------------------------------------------
\* vertex i of the polyline, counted from 0 as the code counts
Vertex(i) == geoPolyline[i + 1]

\* C18 as stated: the path of a Forward movement from segment s to segment e,
\* s < e, starts at the start snap, ends at the target snap and in between
\* holds the vertices s, s+1, ..., e in this order
C18_PathVisitsVerticesFromStart ==
    (geoPath # <<>> /\ geoStart[1].segmentIndex < geoEnd[1].segmentIndex)
        => LET s == geoStart[1].segmentIndex
               e == geoEnd[1].segmentIndex
           IN  /\ Len(geoPath) = (e - s + 1) + 2
               /\ geoPath[1] = geoStart[1].position
               /\ geoPath[Len(geoPath)] = geoEnd[1].position
               /\ \A k \in 0..(e - s) : geoPath[k + 2] = Vertex(s + k)

\* C18 amended: ... and in between holds the vertices s+1, ..., e in this
\* order (vertex s, the beginning of the start's segment, lies behind the
\* start and is not visited)
C18_PathVisitsVerticesAfterStart ==
    (geoPath # <<>> /\ geoStart[1].segmentIndex < geoEnd[1].segmentIndex)
        => LET s == geoStart[1].segmentIndex
               e == geoEnd[1].segmentIndex
           IN  /\ Len(geoPath) = (e - s) + 2
               /\ geoPath[1] = geoStart[1].position
               /\ geoPath[Len(geoPath)] = geoEnd[1].position
               /\ \A k \in 1..(e - s) : geoPath[k + 1] = Vertex(s + k)

\* C18 witness: a movement from the middle of segment 2 to the middle of
\* segment 5 goes through the vertices 3, 4 and 5
C18_Witness ==
    /\ geoPolyline = Zigzag
    /\ geoStart # <<>>
    /\ geoEnd # <<>>
    /\ geoStart[1].segmentIndex = 2
    /\ geoStart[1].position = <<2, 1>>
    /\ geoEnd[1].segmentIndex = 5
    /\ geoEnd[1].position = <<4, 3>>
    /\ geoPath = <<<<2, 1>>, <<2, 0>>, <<4, 0>>, <<4, 2>>, <<4, 3>>>>

\* C20: whatever the query point and the options (segmentHint, searchRadius
\* and minSegmentIndex absent, inside or outside the range of segments),
\* snapPointToPolyline on a polyline of at least two points returns a
\* segmentIndex in [0, length - 2] and a t in [0, 1]
C20_SnapResultInRange ==
    \A r \in {geoStart, geoEnd} :
        (r # <<>> /\ Len(geoPolyline) >= 2)
            => /\ r[1].segmentIndex \in 0..(Len(geoPolyline) - 2)
               /\ r[1].tDen > 0
               /\ 0 <= r[1].tNum
               /\ r[1].tNum <= r[1].tDen

\* C20 witness: a hint above the range, a minimum index below it and a
\* negative radius leave the last segment to search, and the point is snapped
\* to the middle of it
C20_Witness ==
    /\ geoPolyline = Zigzag
    /\ geoPoint = <<4, 3>>
    /\ geoOptions = [segmentHint |-> 9, searchRadius |-> -1, minSegmentIndex |-> -2]
    /\ geoStart # <<>>
    /\ geoStart[1].segmentIndex = Len(Zigzag) - 2
    /\ 2 * geoStart[1].tNum = geoStart[1].tDen
    /\ geoStart[1].position = <<4, 3>>

\* the point lies on segment i of the polyline (a repeated vertex is a
\* segment of one point)
OnSegment(point, i) ==
    LET A == Vertex(i)
        B == Vertex(i + 1)
        cross == (point[1] - A[1]) * (B[2] - A[2]) - (point[2] - A[2]) * (B[1] - A[1])
        dot == (point[1] - A[1]) * (B[1] - A[1]) + (point[2] - A[2]) * (B[2] - A[2])
        ab2 == (B[1] - A[1]) * (B[1] - A[1]) + (B[2] - A[2]) * (B[2] - A[2])
    IN  IF ab2 = 0 THEN point = A ELSE cross = 0 /\ 0 <= dot /\ dot <= ab2

\* the call was a full scan: no segmentHint and no minSegmentIndex
FullScan == geoOptions.segmentHint = NoHint /\ geoOptions.minSegmentIndex = NoHint

\* C21 as stated: a full scan for a point that is vertex k returns the point
\* itself and a segmentIndex in {k-1, k}
C21_VertexSnapsToAdjacentSegment ==
    (geoStart # <<>> /\ FullScan)
        => \A k \in 0..(Len(geoPolyline) - 1) :
              geoPoint = Vertex(k)
                  => /\ geoStart[1].position = geoPoint
                     /\ geoStart[1].segmentIndex \in {k - 1, k}

\* C21 amended: a full scan for a point that is vertex k returns the point
\* itself and the lowest index of a segment through the point; that index is
\* in {k-1, k} provided no segment below k-1 passes through the point
C21_VertexSnapsToFirstSegmentThrough ==
    (geoStart # <<>> /\ FullScan)
        => \A k \in 0..(Len(geoPolyline) - 1) :
              geoPoint = Vertex(k)
                  => /\ geoStart[1].position = geoPoint
                     /\ OnSegment(geoPoint, geoStart[1].segmentIndex)
                     /\ \A i \in 0..(geoStart[1].segmentIndex - 1) : ~OnSegment(geoPoint, i)
                     /\ (\A i \in 0..(k - 2) : ~OnSegment(geoPoint, i))
                            => geoStart[1].segmentIndex \in {k - 1, k}

\* C21 witness: on the closed route the point of vertex 4, where the route
\* began, is snapped onto itself and onto segment 0
C21_Witness ==
    /\ geoPolyline = Loop
    /\ FullScan
    /\ geoPoint = Vertex(4)
    /\ geoStart # <<>>
    /\ geoStart[1].position = geoPoint
    /\ geoStart[1].segmentIndex = 0

\* the squared distance from the point to segment i, as the fraction
\* num / den: to the nearer end when the foot of the perpendicular falls
\* outside the segment, else to the foot
SegmentDistSq(point, i) ==
    LET A == Vertex(i)
        B == Vertex(i + 1)
        ab2 == (B[1] - A[1]) * (B[1] - A[1]) + (B[2] - A[2]) * (B[2] - A[2])
        dot == (point[1] - A[1]) * (B[1] - A[1]) + (point[2] - A[2]) * (B[2] - A[2])
        cross == (point[1] - A[1]) * (B[2] - A[2]) - (point[2] - A[2]) * (B[1] - A[1])
        pa2 == (point[1] - A[1]) * (point[1] - A[1]) + (point[2] - A[2]) * (point[2] - A[2])
        pb2 == (point[1] - B[1]) * (point[1] - B[1]) + (point[2] - B[2]) * (point[2] - B[2])
    IN  IF ab2 = 0 \/ dot <= 0 THEN [num |-> pa2, den |-> 1]
        ELSE IF dot >= ab2 THEN [num |-> pb2, den |-> 1]
        ELSE [num |-> cross * cross, den |-> ab2]

\* fractions with positive denominators
FracLess(x, y) == x.num * y.den < y.num * x.den
FracEqual(x, y) == x.num * y.den = y.num * x.den

\* the segments the call examined
Examined ==
    LET window == SnapWindow(geoPolyline, geoOptions.segmentHint, geoOptions.searchRadius,
                             geoOptions.minSegmentIndex)
    IN  window.startIdx..window.endIdx

\* C22: the result of snapPointToPolyline is on an examined segment, no
\* examined segment is nearer to the point, every examined segment of lower
\* index is farther, and t is the clamped position of the foot on the segment
\* (all segments are examined when no hint and no minimum index is given)
C22_SnapIsNearestFirstExamined ==
    (geoStart # <<>> /\ Examined # {})
        => LET best == geoStart[1].segmentIndex
               A == Vertex(best)
               B == Vertex(best + 1)
               ab2 == (B[1] - A[1]) * (B[1] - A[1]) + (B[2] - A[2]) * (B[2] - A[2])
               dot == (geoPoint[1] - A[1]) * (B[1] - A[1])
                        + (geoPoint[2] - A[2]) * (B[2] - A[2])
               t == IF ab2 = 0 THEN [num |-> 0, den |-> 1]
                    ELSE [num |-> Max(0, Min(ab2, dot)), den |-> ab2]
               here == [num |-> (geoPoint[1] - geoStart[1].position[1])
                                  * (geoPoint[1] - geoStart[1].position[1])
                                + (geoPoint[2] - geoStart[1].position[2])
                                  * (geoPoint[2] - geoStart[1].position[2]),
                        den |-> 1]
           IN  /\ best \in Examined
               /\ \A i \in Examined : ~FracLess(SegmentDistSq(geoPoint, i),
                                                SegmentDistSq(geoPoint, best))
               /\ \A i \in Examined :
                     i < best => FracLess(SegmentDistSq(geoPoint, best),
                                          SegmentDistSq(geoPoint, i))
               /\ FracEqual([num |-> geoStart[1].tNum, den |-> geoStart[1].tDen], t)
               /\ (t.num = 0 \/ t.num = t.den)
                     => FracEqual(here, SegmentDistSq(geoPoint, best))
               /\ FullScan => Examined = 0..(Len(geoPolyline) - 2)

\* C22 witness: the point is equally far from segments 0, 1 and 2; segments 1
\* and 2 were examined and the result is on segment 1
C22_Witness ==
    /\ geoPolyline = Zigzag
    /\ geoPoint = <<1, 1>>
    /\ geoOptions = [segmentHint |-> 1, searchRadius |-> 1, minSegmentIndex |-> 1]
    /\ geoStart # <<>>
    /\ Examined = {1, 2}
    /\ FracEqual(SegmentDistSq(geoPoint, 0), SegmentDistSq(geoPoint, 1))
    /\ FracEqual(SegmentDistSq(geoPoint, 2), SegmentDistSq(geoPoint, 1))
    /\ geoStart[1].segmentIndex = 1
    /\ geoStart[1].position = <<1, 2>>

\* the window of C23: the segment indices within searchRadius of the hint
\* and, when minSegmentIndex is given, not below it (hint and minimum index
\* taken into the range of segments, a negative radius as 0)
HintWindow ==
    LET lastSegment == Len(geoPolyline) - 2
        hint == Max(0, Min(lastSegment, geoOptions.segmentHint))
        radius == Max(0, geoOptions.searchRadius)
        floor == IF geoOptions.minSegmentIndex = NoHint THEN 0
                 ELSE Max(0, Min(lastSegment, geoOptions.minSegmentIndex))
    IN  {i \in 0..lastSegment : hint - radius <= i /\ i <= hint + radius /\ floor <= i}

\* C23: with a segmentHint, only segments of the window are examined, and the
\* returned segmentIndex lies in the window (so it is not below
\* minSegmentIndex)
C23_SnapStaysInHintWindow ==
    (geoStart # <<>> /\ geoOptions.segmentHint # NoHint)
        => /\ Examined \subseteq HintWindow
           /\ geoStart[1].segmentIndex \in HintWindow

\* ------------------------------------------------------------------------
\* Claims about the direction resolver
\* ------------------------------------------------------------------------
\* the call has returned
Resolved == dirResult # <<>>

\* the nodeid of the call names a node: it is a string with a character
\* that is not a space
NamesNode == dirNodeId # Null /\ \E i \in 1..Len(dirNodeId) : dirNodeId[i] # " "

\* the node the call asks about: its nodeid without the spaces around it
AskedNode ==
    LET inked == {i \in 1..Len(dirNodeId) : dirNodeId[i] # " "}
        first == CHOOSE i \in inked : \A j \in inked : i <= j
        last == CHOOSE i \in inked : \A j \in inked : j <= i
    IN  SubSeq(dirNodeId, first, last)

AllowListed == NamesNode /\ AskedNode \in ALWAYS_UPWARD_NODEIDS

\* the candidates the lookup holds for the asked node, as a set
Candidates ==
    IF NamesNode /\ AskedNode \in DOMAIN dirLookup[1].sequenceMap
    THEN {dirLookup[1].sequenceMap[AskedNode][i] :
              i \in 1..Len(dirLookup[1].sequenceMap[AskedNode])}
    ELSE {}

OfVariant == {c \in Candidates : c.routeid = dirRouteId}

\* the candidate pool of the call: the candidates of the asked variant when
\* a variant is asked for and has any, else all candidates (every variant of
\* a lookup built from the sequences is active)
CandidatePool == IF dirRouteId # NoRoute /\ OfVariant # {} THEN OfVariant ELSE Candidates

\* the call went as far as choosing among candidates
Chose ==
    /\ Resolved
    /\ NamesNode
    /\ IsFinite(dirNodeOrd)
    /\ ~AllowListed
    /\ Candidates # {}

Winner == dirResult[1].bestMatch[1]

\* a candidate's own direction code, 0 as DOWN and 1 as UP
OwnCode(c) == IF c.updowncd = 0 THEN DOWN ELSE UP

NotMixed(routeid) ==
    routeid \in DOMAIN dirLookup[1].routeMixedDirMap => ~dirLookup[1].routeMixedDirMap[routeid]

HasFallback(routeid) == routeid \in DOMAIN dirLookup[1].fallbackDirMap

\* the direction the claims give a candidate: the fallback of its variant
\* when the variant is not mixed and has one, else its own code
DirectionFor(c) ==
    IF NotMixed(c.routeid) /\ HasFallback(c.routeid)
    THEN dirLookup[1].fallbackDirMap[c.routeid] ELSE OwnCode(c)

ExactMatches == {c \in CandidatePool : c.nodeord = dirNodeOrd}

\* C24 as stated: when the candidate pool holds a candidate whose order
\* equals the target order, the result is that candidate's own direction
\* code.
C24_ExactMatchGivesOwnCode ==
    (Chose /\ ExactMatches # {})
        => \E c \in ExactMatches : dirResult[1].direction = OwnCode(c)

\* C24 amended: when the candidate pool holds a candidate whose order equals
\* the target order, such a candidate wins and the result is the two-variant
\* fallback direction of its variant when that variant is not mixed and has
\* a fallback, and otherwise that candidate's own direction code.
C24_ExactMatchWins ==
    (Chose /\ ExactMatches # {})
        => /\ dirResult[1].bestMatch # <<>>
           /\ Winner \in ExactMatches
           /\ dirResult[1].direction = DirectionFor(Winner)

\* node a is asked at order 2 where a variant that only runs DOWN stops; the
\* variant is the first of two, and UP comes back
C24_Witness ==
    /\ Chose
    /\ dirNodeId = NodeA /\ dirNodeOrd = 2
    /\ Len(dirSequences) = 2
    /\ Winner \in ExactMatches
    /\ Winner.routeid = dirSequences[1].routeid
    /\ Winner.updowncd = 0
    /\ dirResult[1].direction = UP

\* the distance of a candidate's order from the target order
OrderDistance(c) == IF c.nodeord < dirNodeOrd THEN dirNodeOrd - c.nodeord
                    ELSE c.nodeord - dirNodeOrd

\* C25: when no candidate of the pool has exactly the target order, the
\* winning candidate is one that minimises |order - target|, and of the
\* candidates at that minimal distance one with the smallest order value
\* wins, in whatever order the candidates were inserted.
C25_NearestThenSmallerOrderWins ==
    (Chose /\ ExactMatches = {})
        => /\ dirResult[1].bestMatch # <<>>
           /\ Winner \in CandidatePool
           /\ \A c \in CandidatePool :
                  /\ OrderDistance(Winner) <= OrderDistance(c)
                  /\ OrderDistance(c) = OrderDistance(Winner) => Winner.nodeord <= c.nodeord

\* node a was inserted at order 3 before it was inserted at order 1; asked
\* at order 2, between the two, the candidate at order 1 wins
C25_Witness ==
    /\ Chose
    /\ dirNodeId = NodeA /\ dirNodeOrd = 2
    /\ ExactMatches = {}
    /\ dirLookup[1].sequenceMap[NodeA][1].nodeord = 3
    /\ Winner.nodeord = 1
    /\ \E c \in CandidatePool : c.nodeord = 3

\* C26: for a nodeid of the always-upward allow-list and a finite order the
\* result is UP whatever the lookup holds: no candidates, candidates with
\* direction DOWN, any variant asked for and any fallback mapping.
C26_AllowListedResolvesUp ==
    (Resolved /\ AllowListed /\ IsFinite(dirNodeOrd)) => dirResult[1].direction = UP

\* the allow-listed node has one candidate, with code 0, in the second of two
\* variants that only run DOWN; asked for that variant, UP comes back
C26_Witness ==
    /\ Resolved
    /\ dirNodeId = NodeU /\ IsFinite(dirNodeOrd)
    /\ Len(dirSequences) = 2
    /\ dirRouteId = dirSequences[2].routeid
    /\ Candidates # {}
    /\ \A c \in Candidates : c.routeid = dirRouteId /\ c.updowncd = 0 /\ DirectionFor(c) = DOWN
    /\ dirResult[1].direction = UP

\* C27: the result is null, and the call returns, when the nodeid is null,
\* undefined, empty or only spaces, when the order is NaN or infinite, or
\* when the lookup has no candidate for a nodeid that is not allow-listed.
C27_UnresolvableGivesNull ==
    (/\ Resolved
     /\ \/ ~NamesNode
        \/ dirNodeOrd \in {NaN, Infinity, -Infinity}
        \/ ~AllowListed /\ Candidates = {})
        => dirResult[1] = [bestMatch |-> <<>>, direction |-> NoDirection]

\* node a has candidates and is asked at order NaN
C27_Witness ==
    /\ Resolved
    /\ dirNodeId = NodeA /\ dirNodeOrd = NaN
    /\ Candidates # {}
    /\ dirResult[1].direction = NoDirection

\* C28: when a variant is asked for and the node has a candidate of that
\* variant, the winning candidate is of that variant, even when a candidate
\* of another variant is nearer to the target order or exactly at it; when
\* the variant has no candidate for the node, the winner is chosen from all
\* candidates of the node.
C28_AskedVariantComesFirst ==
    (Chose /\ dirRouteId # NoRoute)
        => /\ dirResult[1].bestMatch # <<>>
           /\ IF OfVariant # {}
              THEN Winner \in OfVariant
              ELSE /\ Winner \in Candidates
                   /\ \A c \in Candidates : OrderDistance(Winner) <= OrderDistance(c)

\* another variant stops at the node exactly at the target order; the
\* variant asked for does not, and its nearest candidate wins
C28_Witness ==
    /\ Chose
    /\ dirRouteId # NoRoute
    /\ OfVariant # {}
    /\ \E c \in Candidates \ OfVariant : c.nodeord = dirNodeOrd
    /\ Winner.routeid = dirRouteId
    /\ Winner.nodeord # dirNodeOrd

\* the stops of a variant hold both direction codes
MixedDirection(routeid) ==
    \E i \in 1..Len(dirSequences) :
        /\ dirSequences[i].routeid = routeid
        /\ \E k, m \in 1..Len(dirSequences[i].sequence) :
               dirSequences[i].sequence[k].updowncd # dirSequences[i].sequence[m].updowncd

\* exactly two variants were loaded: the first falls back to UP, the second
\* to DOWN; with any other number of variants no variant has a fallback
TwoVariantFallback(routeid) ==
    IF Len(dirSequences) = 2 /\ routeid = dirSequences[1].routeid THEN UP
    ELSE IF Len(dirSequences) = 2 /\ routeid = dirSequences[2].routeid THEN DOWN
    ELSE NoDirection

\* C29: given the winning candidate, the result is the two-variant fallback
\* direction of the candidate's variant exactly when that variant is not
\* mixed-direction and has a fallback; in every other case it is the
\* candidate's own direction code, 0 as DOWN and 1 as UP.
C29_FallbackUnlessMixed ==
    Chose
        => /\ dirResult[1].bestMatch # <<>>
           /\ dirResult[1].direction =
                  IF ~MixedDirection(Winner.routeid)
                     /\ TwoVariantFallback(Winner.routeid) # NoDirection
                  THEN TwoVariantFallback(Winner.routeid)
                  ELSE OwnCode(Winner)

\* the first of two variants stops in both directions; its candidate with
\* code 0 wins and DOWN comes back, not the variant's fallback UP
C29_Witness ==
    /\ Chose
    /\ Len(dirSequences) = 2
    /\ Winner.routeid = dirSequences[1].routeid
    /\ MixedDirection(Winner.routeid)
    /\ Winner.updowncd = 0
    /\ dirResult[1].direction = DOWN

\* C33: the lookup that was built has a fallback mapping only when exactly
\* two variants were supplied, UP for the first and DOWN for the second; with
\* one variant or with three no variant has a fallback, and a resolution
\* returns the winning candidate's own direction code.
C33_FallbackOnlyForTwoVariants ==
    dirLookup # <<>>
        => /\ IF Len(dirSequences) = 2
              THEN /\ DOMAIN dirLookup[1].fallbackDirMap
                          = {dirSequences[1].routeid, dirSequences[2].routeid}
                   /\ dirLookup[1].fallbackDirMap[dirSequences[1].routeid] = UP
                   /\ dirLookup[1].fallbackDirMap[dirSequences[2].routeid] = DOWN
              ELSE DOMAIN dirLookup[1].fallbackDirMap = {}
           /\ (Chose /\ Len(dirSequences) # 2)
                  => dirResult[1].direction = OwnCode(Winner)

\* three variants were supplied; the first only runs DOWN, its candidate wins
\* and DOWN comes back, where the first of two variants would give UP
C33_Witness ==
    /\ Chose
    /\ Len(dirSequences) = 3
    /\ DOMAIN dirLookup[1].fallbackDirMap = {}
    /\ Winner.routeid = dirSequences[1].routeid
    /\ ~MixedDirection(Winner.routeid)
    /\ Winner.updowncd = 0
    /\ dirResult[1].direction = DOWN

\* ------------------------------------------------------------------------
\* Claims about the hook useBusDirection
\* ------------------------------------------------------------------------
\* the load the most recent run of the effect began has delivered its route
LatestLoaded(loads) == loads # <<>> /\ loads[Len(loads)].stage = "loaded"

\* C34: after the route name has changed, the end of a load that an earlier
\* route name began never installs anything: it leaves isReady and the route
\* state alone. The hook is ready exactly when the load begun for the latest
\* route name has succeeded, its route state is then that route's sequences
\* and nothing else, and getDirection returns null until then (and for good
\* if that load fails or the route is unknown) and afterwards the direction
\* resolved against that route's sequences.
C34_LateLoadNeverInstalls ==
    [][/\ \A i \in 1..Len(busLoads) :
              (/\ ~busLoads[i].isMounted
               /\ InfoArrives(i) \/ DetailsArrive(i) \/ DetailsFail(i))
                  => UNCHANGED <<busIsReady, busRouteState>>
       /\ busIsReady' <=> LatestLoaded(busLoads')
       /\ busIsReady' =>
              /\ busRouteState'.sequences = RouteData(busLoads'[Len(busLoads')].routeName)
              /\ busEffectPending' \/ busLoads'[Len(busLoads')].routeName = busRouteName'
       /\ (~busEffectPending' /\ ~busIsReady') => busRouteState'.sequences = <<>>
       /\ \A nodeord \in AskedOrds :
              GetDirection(nodeord)
                  => busAnswer'[1].direction =
                         IF LatestLoaded(busLoads)
                         THEN resolveDirection(
                                  buildDirectionLookup(
                                      LoadedRouteState(busLoads[Len(busLoads)].routeName)),
                                  NodeA, nodeord, NoRoute)
                         ELSE NoDirection
      ]_vars

\* the route name changed from A to B while A was loading; A's load ended
\* afterwards without being applied, B's load succeeded, and node a at order
\* 1 resolves to DOWN, as route B has it (route A would give UP)
C34_Witness ==
    /\ busRouteName = "B"
    /\ Len(busLoads) = 2
    /\ busLoads[1] = [routeName |-> "A", isMounted |-> FALSE, stage |-> "loaded",
                      applied |-> FALSE]
    /\ busLoads[2].stage = "loaded"
    /\ busIsReady
    /\ busRouteState.sequences = RouteData("B")
    /\ busAnswer = <<[nodeord |-> 1, direction |-> DOWN]>>

CacheQuiet == CacheInit /\ maxSize = 1

Init == CacheInit /\ AnimInit /\ GeoIdle /\ DirIdle /\ BusIdle

Next == CacheNext

Spec == Init /\ [][Next]_vars

AnimStart == CacheQuiet /\ AnimInit /\ GeoIdle /\ DirIdle /\ BusIdle

PendingStart == CachePending /\ AnimInit /\ GeoIdle /\ DirIdle /\ BusIdle
SpecPending == PendingStart /\ [][CacheNext]_vars
SpecAnim == AnimStart /\ [][AnimNext]_vars

\* the browser keeps running the frame callbacks that are scheduled while time
\* passes: a callback that stays scheduled runs, at the latest, at a time when
\* the whole duration of its animation has elapsed
SpecAnimLive == AnimStart /\ [][AnimNext]_vars /\ WF_vars(Frame(FramesPerMove))

GeoStart == CacheQuiet /\ AnimInit /\ GeoInit /\ DirIdle /\ BusIdle

SpecGeo == GeoStart /\ [][GeoNext]_vars

DirStart == CacheQuiet /\ AnimInit /\ GeoIdle /\ DirInit /\ BusIdle

SpecDir == DirStart /\ [][DirNext]_vars

BusStart == CacheQuiet /\ AnimInit /\ GeoIdle /\ DirIdle /\ BusInit

SpecBus == BusStart /\ [][BusNext]_vars

====
